---- MODULE Spec2Model ----
(***************************************************************************)
(* Model of the properties engine of trackle-utils-esp-idf                 *)
(* (src/src/trackle_utils_properties.c): the property registry, the        *)
(* property groups, the debounce logic and the periodic publishing task;   *)
(* and of its notifications engine (src/src/trackle_utils_notifications.c):*)
(* the notification registry, the rendering of messages and the periodic   *)
(* task that publishes the notifications one at a time.                    *)
(*                                                                         *)
(* Array indexes are 1-based here, so that the index of a property in     *)
(* props equals its Trackle_PropID_t and the index of a group in           *)
(* propGroups equals its Trackle_PropGroupID_t.                            *)
(***************************************************************************)
EXTENDS Integers, Sequences, FiniteSets, TLC

VARIABLES
    props,                \* props[1..numPropsCreated], the created slots of props[]
    propGroups,           \* propGroups[1..TRACKLE_MAX_PROPGROUPS_NUM], all slots
    numPropGroupsCreated, \* static int numPropGroupsCreated
    defaultValue,         \* static int32_t defaultValue
    defaultChanged,       \* static bool defaultChanged
    taskState,            \* "setup" (task not started), "waiting" (in vTaskDelayUntil),
                          \* "publishing" (inside trackleSyncStateSecure)
    first_run,            \* bool first_run of the task
    jsonBuffer,           \* static char jsonBuffer[] of the task
    clockMs,              \* xTaskGetTickCount() * portTICK_PERIOD_MS, 32 bit
    ticks,                \* number of iterations of the task loop so far
    calls,                \* number of API calls made since the task started
    staged,               \* history: <<prop index, rendered member>> appended this tick
    retry,                \* history: per property, the member staged in a failed publish
                          \* and still current, until a group of it is evaluated again
    acked,                \* history: per property, member last published with success
    quiet,                \* history: iterations in a row that ran connected, without a
                          \* failed publish, since the latest API call (up to MaxQuiet)
    lastCall,             \* history: the latest API call and its result, until the task runs
    eNow, eStart, eDelay, eResult, \* inputs and result of a call of isMsElapsed
    notifications,        \* notifications[1..numNotificationsCreated], the created slots
    nTaskState,           \* notifications task: "setup" (not started), "waiting" (in
                          \* vTaskDelayUntil), "publishing" (inside tracklePublishSecure)
    aIdx,                 \* int aIdx of the notifications task (1-based, 0 outside the loop)
    messageBuffer,        \* static char messageBuffer[] of the notifications task
    nTicks,               \* number of iterations of the notifications task loop so far
    attempts,             \* history: <<index, event, message, success>> of the publish
                          \* calls returned in the current iteration
    lastFailed,           \* history: per notification, the message of its failed publish,
                          \* until the notification is updated or published
    rInput, rOutput       \* input and results of a call of the rendering functions

vars == <<props, propGroups, numPropGroupsCreated, defaultValue, defaultChanged,
          taskState, first_run, jsonBuffer, clockMs, ticks, calls, staged,
          retry, acked, quiet, lastCall, eNow, eStart, eDelay, eResult,
          notifications, nTaskState, aIdx, messageBuffer, nTicks, attempts,
          lastFailed, rInput, rOutput>>

elapsedVars == <<eNow, eStart, eDelay, eResult>>
historyVars == <<staged, retry, acked, quiet, lastCall>>
taskVars == <<taskState, first_run, jsonBuffer, clockMs, ticks>>
notifTaskVars == <<nTaskState, aIdx, messageBuffer, nTicks, attempts, lastFailed>>
renderVars == <<rInput, rOutput>>
notifVars == <<notifications, notifTaskVars, renderVars>>

----------------------------------------------------------------------------
(* Bounds of the model and constants of the program *)

\* A uint32_t is the pair <<high half, low half>> of its 16-bit halves (the
\* model checker's integers are narrower than 2^32).
HalfMod == 65536
TRACKLE_PROPERTIES_TASK_PERIOD_MS == <<0, 100>>
TRACKLE_MAX_PROPS_NUM == 3
TRACKLE_MAX_PROPGROUPS_NUM == 2
TRACKLE_MAX_PROP_NAME_LENGTH == 3
MaxTicks == 3
MaxCalls == 2
MaxQuiet == 2

Names == {"a", "b", "long"}
NewValues == {1}
DefaultValues == {0}
NumericKinds == {<<1, 0, TRUE>>, <<1, 0, FALSE>>, <<10, 1, FALSE>>}
StringMaxLengths == {1}
NewStrings == {<<"x">>, <<"x", "y">>}
PeriodsMs == {<<0, 100>>, <<0, 200>>}
DebounceDelaysMs == {<<0, 0>>, <<0, 200>>}
StartClocksMs == {<<HalfMod - 1, HalfMod - 150>>}

NoMember == ""

----------------------------------------------------------------------------
(* Text rendering *)

Digit(d) == <<"0", "1", "2", "3", "4", "5", "6", "7", "8", "9">>[d + 1]

RECURSIVE DecimalOfNat(_)
DecimalOfNat(n) == IF n < 10 THEN Digit(n) ELSE DecimalOfNat(n \div 10) \o Digit(n % 10)

\* Decimal digits of a uint32_t, by long division of its halves by 10.
RECURSIVE DecimalOfU32(_)
DecimalOfU32(u) ==
    IF u[1] = 0 THEN DecimalOfNat(u[2])
    ELSE LET rest == (u[1] % 10) * HalfMod + u[2]
         IN  DecimalOfU32(<<u[1] \div 10, rest \div 10>>) \o Digit(rest % 10)

\* printf("%" PRIi32, v)
FormatPRIi32(v) == IF v < 0 THEN "-" \o DecimalOfNat(-v) ELSE DecimalOfNat(v)

RECURSIVE Pow10(_)
Pow10(n) == IF n = 0 THEN 1 ELSE 10 * Pow10(n - 1)

RECURSIVE PadDigits(_, _)
PadDigits(n, width) ==
    IF width = 0 THEN ""
    ELSE PadDigits(n \div 10, width - 1) \o Digit(n % 10)

\* printf("%.<numDecimals>f", ((double)v) / scale), rounding half to even on the
\* exact quotient (the quotients of the model are exactly representable or far
\* from a tie).
FormatFixed(v, scale, numDecimals) ==
    LET mag == IF v < 0 THEN -v ELSE v
        num == mag * Pow10(numDecimals)
        q == num \div scale
        r == num % scale
        rounded == IF 2 * r > scale \/ (2 * r = scale /\ q % 2 = 1) THEN q + 1 ELSE q
        whole == rounded \div Pow10(numDecimals)
        frac == rounded % Pow10(numDecimals)
    IN  (IF v < 0 THEN "-" ELSE "") \o DecimalOfNat(whole)
        \o (IF numDecimals = 0 THEN "" ELSE "." \o PadDigits(frac, numDecimals))

RECURSIVE CString(_)
CString(chars) == IF chars = <<>> THEN "" ELSE Head(chars) \o CString(Tail(chars))

\* strncpy(dst, src, n); dst[n] = '\0'
Strncpy(src, n) == IF Len(src) <= n THEN src ELSE SubSeq(src, 1, n)

----------------------------------------------------------------------------
(* Arithmetic on uint32_t, wrapping modulo 2^32 *)

UINT32_MAX == <<HalfMod - 1, HalfMod - 1>>

U32Add(a, b) ==
    LET lo == a[2] + b[2]
    IN  <<(a[1] + b[1] + lo \div HalfMod) % HalfMod, lo % HalfMod>>

U32Sub(a, b) ==
    LET lo == a[2] - b[2]
        borrow == IF lo < 0 THEN 1 ELSE 0
    IN  <<(a[1] - b[1] - borrow + 2 * HalfMod) % HalfMod, (lo + HalfMod) % HalfMod>>

U32Less(a, b) == a[1] < b[1] \/ (a[1] = b[1] /\ a[2] < b[2])

U32Geq(a, b) == ~U32Less(a, b)

\* (uint32_t)v of an int32_t v of small magnitude
U32OfInt(v) == IF v >= 0 THEN <<v \div HalfMod, v % HalfMod>>
               ELSE U32Sub(<<0, 0>>, <<(-v) \div HalfMod, (-v) % HalfMod>>)

\* printf("%" PRIu32, (uint32_t)v)
FormatPRIu32(v) == DecimalOfU32(U32OfInt(v))

(* Elapsed time over the wrapping millisecond counter *)

\* Mutant: a subtraction that reports no elapsed time when now is below start.
isMsElapsedNoWrap(now, start, delay) ==
    IF U32Less(now, start) THEN FALSE ELSE U32Geq(U32Sub(now, start), delay)

isMsElapsed(now, start, delay) ==
    IF U32Less(now, start)
    THEN U32Geq(U32Add(U32Sub(U32Add(now, UINT32_MAX), start), <<0, 1>>), delay)
    ELSE U32Geq(U32Sub(now, start), delay)

----------------------------------------------------------------------------
(* The property registry *)

ValidProp(propID) == propID - 1 >= 0 /\ propID - 1 < Len(props)

ValidGroup(propGroupId) ==
    propGroupId - 1 >= 0 /\ propGroupId - 1 < numPropGroupsCreated

Keys == {props[i].key : i \in 1..Len(props)}

NewProp(name, scale, numDecimals, sign) ==
    [key |-> name, changed |-> defaultChanged, sign |-> sign,
     lastPubValue |-> defaultValue, setValue |-> defaultValue, scale |-> scale,
     disabled |-> FALSE, numDecimals |-> numDecimals, setToPublish |-> FALSE,
     isString |-> FALSE, lastPubStringValue |-> <<>>, setStringValue |-> <<>>,
     stringValueMaxLength |-> 0,
     debouncing |-> FALSE, latestSetTimeMs |-> <<0, 0>>, debounceDelayMs |-> <<0, 0>>]

NewStringProp(name, maxLength) ==
    [key |-> name, changed |-> defaultChanged, sign |-> FALSE,
     lastPubValue |-> defaultValue, setValue |-> defaultValue, scale |-> 1,
     disabled |-> FALSE, numDecimals |-> 0, setToPublish |-> FALSE,
     isString |-> TRUE, lastPubStringValue |-> <<>>, setStringValue |-> <<>>,
     stringValueMaxLength |-> maxLength,
     debouncing |-> FALSE, latestSetTimeMs |-> <<0, 0>>, debounceDelayMs |-> <<0, 0>>]

\* Mutant: the length of the name is not tested.
CreateAcceptedAnyLength(name) ==
    /\ Len(props) < TRACKLE_MAX_PROPS_NUM
    /\ name \notin Keys

\* Mutant: the name is not compared to the keys of the registry.
CreateAcceptedDuplicates(name) ==
    /\ Len(props) < TRACKLE_MAX_PROPS_NUM
    /\ Len(name) < TRACKLE_MAX_PROP_NAME_LENGTH

\* Whether a creation call with this name gets past the capacity, duplicate and
\* length checks.
CreateAccepted(name) ==
    /\ Len(props) < TRACKLE_MAX_PROPS_NUM
    /\ name \notin Keys
    /\ Len(name) < TRACKLE_MAX_PROP_NAME_LENGTH

----------------------------------------------------------------------------
(* Setup calls: defaults, creation of properties and groups, membership *)

\* The latest call: the function, the handle passed (for a creation call the
\* value returned) and whether the call succeeded.
Call(op, handle, result) == [op |-> op, handle |-> handle, result |-> result]

NoCall == Call("none", 0, FALSE)

\* The values returned by the creation calls of the properties engine on error.
Trackle_PropID_ERROR == -1
Trackle_PropGroupID_ERROR == -1

Trackle_Prop_setDefaults(value, changed) ==
    /\ taskState = "setup"
    /\ defaultValue' = value
    /\ defaultChanged' = changed
    /\ UNCHANGED <<props, propGroups, numPropGroupsCreated, taskVars, calls,
                   historyVars, elapsedVars, notifVars>>

Trackle_Prop_create(name, scale, numDecimals, sign) ==
    /\ taskState = "setup"
    /\ IF CreateAccepted(name)
       THEN /\ props' = Append(props, NewProp(name, scale, numDecimals, sign))
            /\ retry' = Append(retry, NoMember)
            /\ acked' = Append(acked, NoMember)
            /\ lastCall' = Call("Trackle_Prop_create", Len(props) + 1, TRUE)
       ELSE /\ UNCHANGED <<props, retry, acked>>
            /\ lastCall' = Call("Trackle_Prop_create", Trackle_PropID_ERROR, FALSE)
    /\ UNCHANGED <<propGroups, numPropGroupsCreated, defaultValue, defaultChanged,
                   taskVars, calls, staged, quiet, elapsedVars, notifVars>>

\* mallocOk: whether both malloc calls return a buffer.
Trackle_Prop_createString(name, maxLength, mallocOk) ==
    /\ taskState = "setup"
    /\ IF CreateAccepted(name) /\ mallocOk
       THEN /\ props' = Append(props, NewStringProp(name, maxLength))
            /\ retry' = Append(retry, NoMember)
            /\ acked' = Append(acked, NoMember)
            /\ lastCall' = Call("Trackle_Prop_createString", Len(props) + 1, TRUE)
       ELSE /\ UNCHANGED <<props, retry, acked>>
            /\ lastCall' = Call("Trackle_Prop_createString", Trackle_PropID_ERROR, FALSE)
    /\ UNCHANGED <<propGroups, numPropGroupsCreated, defaultValue, defaultChanged,
                   taskVars, calls, staged, quiet, elapsedVars, notifVars>>

NewPropGroup(periodMs, onlyIfChanged) ==
    [onlyIfChanged |-> onlyIfChanged, propsIndexes |-> <<>>,
     periodMs |-> periodMs, latestWakeTimeMs |-> <<0, 0>>]

\* Mutant: the call returns the index of the new group, not its handle.
Trackle_PropGroup_createReturnsIndex(periodMs, onlyIfChanged) ==
    /\ taskState = "setup"
    /\ IF numPropGroupsCreated < TRACKLE_MAX_PROPGROUPS_NUM
       THEN /\ propGroups' = [propGroups EXCEPT ![numPropGroupsCreated + 1] =
                                 NewPropGroup(periodMs, onlyIfChanged)]
            /\ numPropGroupsCreated' = numPropGroupsCreated + 1
            /\ lastCall' = Call("Trackle_PropGroup_create", numPropGroupsCreated, TRUE)
       ELSE /\ UNCHANGED <<propGroups, numPropGroupsCreated>>
            /\ lastCall' = Call("Trackle_PropGroup_create", Trackle_PropGroupID_ERROR,
                                FALSE)
    /\ UNCHANGED <<props, defaultValue, defaultChanged, taskVars, calls,
                   staged, retry, acked, quiet, elapsedVars, notifVars>>

Trackle_PropGroup_create(periodMs, onlyIfChanged) ==
    /\ taskState = "setup"
    /\ IF numPropGroupsCreated < TRACKLE_MAX_PROPGROUPS_NUM
       THEN /\ propGroups' = [propGroups EXCEPT ![numPropGroupsCreated + 1] =
                                 NewPropGroup(periodMs, onlyIfChanged)]
            /\ numPropGroupsCreated' = numPropGroupsCreated + 1
            /\ lastCall' = Call("Trackle_PropGroup_create", numPropGroupsCreated + 1, TRUE)
       ELSE /\ UNCHANGED <<propGroups, numPropGroupsCreated>>
            /\ lastCall' = Call("Trackle_PropGroup_create", Trackle_PropGroupID_ERROR,
                                FALSE)
    /\ UNCHANGED <<props, defaultValue, defaultChanged, taskVars, calls,
                   staged, retry, acked, quiet, elapsedVars, notifVars>>

\* The capacity test of addProp reads propGroups[propGroupId], the slot AFTER the
\* group addressed (whose index is propGroupId - 1).  For the last group that is
\* a read past the end of the array, whose outcome is pastEnd.
AddPropHasRoom(propGroupId, pastEnd) ==
    IF propGroupId + 1 <= TRACKLE_MAX_PROPGROUPS_NUM
    THEN Len(propGroups[propGroupId + 1].propsIndexes) < TRACKLE_MAX_PROPS_NUM - 1
    ELSE pastEnd

AddPropAccepted(propId, propGroupId, pastEnd) ==
    /\ ValidGroup(propGroupId)
    /\ ValidProp(propId)
    /\ AddPropHasRoom(propGroupId, pastEnd)
    /\ \A i \in 1..Len(propGroups[propGroupId].propsIndexes) :
           propGroups[propGroupId].propsIndexes[i] # propId

Trackle_PropGroup_addProp(propId, propGroupId, pastEnd) ==
    /\ taskState = "setup"
    /\ IF AddPropAccepted(propId, propGroupId, pastEnd)
       THEN /\ propGroups' = [propGroups EXCEPT ![propGroupId].propsIndexes =
                                  Append(@, propId)]
            /\ lastCall' = Call("Trackle_PropGroup_addProp", propGroupId, TRUE)
       ELSE /\ UNCHANGED propGroups
            /\ lastCall' = Call("Trackle_PropGroup_addProp", propGroupId, FALSE)
    /\ UNCHANGED <<props, numPropGroupsCreated, defaultValue, defaultChanged,
                   taskVars, calls, staged, retry, acked, quiet, elapsedVars,
                   notifVars>>

\* Results of xTaskCreatePinnedToCore and the values they are compared with.
pdPASS == 1
pdTRUE == 1
errCOULD_NOT_ALLOCATE_REQUIRED_MEMORY == -1
ESP_OK == 0
TaskCreationResults == {pdPASS, errCOULD_NOT_ALLOCATE_REQUIRED_MEMORY}

\* Line 268: the test of the result in Trackle_Props_startTask.
PropsTaskStarted(taskCreationRes) == taskCreationRes = pdTRUE

\* taskCreationRes: the result of xTaskCreatePinnedToCore, which has created the
\* task when it returns pdPASS.  The task then runs its prologue: every created
\* group starts its period at the current time.
Trackle_Props_startTask(taskCreationRes) ==
    /\ taskState = "setup"
    /\ IF taskCreationRes = pdPASS
       THEN /\ taskState' = "waiting"
            /\ first_run' = TRUE
            /\ jsonBuffer' = ""
            /\ propGroups' = [g \in DOMAIN propGroups |->
                                 IF g <= numPropGroupsCreated
                                 THEN [propGroups[g] EXCEPT !.latestWakeTimeMs = clockMs]
                                 ELSE propGroups[g]]
       ELSE UNCHANGED <<taskState, first_run, jsonBuffer, propGroups>>
    /\ lastCall' = Call("Trackle_Props_startTask", 0, PropsTaskStarted(taskCreationRes))
    /\ UNCHANGED <<props, numPropGroupsCreated, defaultValue, defaultChanged,
                   clockMs, ticks, calls, staged, retry, acked, quiet, elapsedVars,
                   notifVars>>

----------------------------------------------------------------------------
(* Calls made by the application while the task runs *)

CanCall == taskState # "setup" /\ calls < MaxCalls

\* Mutant: the update restarts the debounce without comparing the new value to
\* the stored one.
Trackle_Prop_updateUncompared(propID, newValue) ==
    /\ CanCall
    /\ calls' = calls + 1
    /\ quiet' = 0
    /\ IF ValidProp(propID)
       THEN /\ props' = [props EXCEPT ![propID].debouncing = TRUE,
                                      ![propID].latestSetTimeMs = clockMs,
                                      ![propID].setValue = newValue]
            /\ retry' = [retry EXCEPT ![propID] = NoMember]
            /\ lastCall' = Call("Trackle_Prop_update", propID, TRUE)
       ELSE /\ UNCHANGED <<props, retry>>
            /\ lastCall' = Call("Trackle_Prop_update", propID, FALSE)
    /\ UNCHANGED <<propGroups, numPropGroupsCreated, defaultValue, defaultChanged,
                   taskVars, staged, acked, elapsedVars, notifVars>>

Trackle_Prop_update(propID, newValue) ==
    /\ CanCall
    /\ calls' = calls + 1
    /\ quiet' = 0
    /\ IF ValidProp(propID) /\ props[propID].setValue # newValue
       THEN /\ props' = [props EXCEPT ![propID].debouncing = TRUE,
                                      ![propID].latestSetTimeMs = clockMs,
                                      ![propID].setValue = newValue]
            /\ retry' = [retry EXCEPT ![propID] = NoMember]
            /\ lastCall' = Call("Trackle_Prop_update", propID, TRUE)
       ELSE /\ UNCHANGED <<props, retry>>
            /\ lastCall' = Call("Trackle_Prop_update", propID, FALSE)
    /\ UNCHANGED <<propGroups, numPropGroupsCreated, defaultValue, defaultChanged,
                   taskVars, staged, acked, elapsedVars, notifVars>>

Trackle_Prop_updateString(propID, newValue) ==
    /\ CanCall
    /\ calls' = calls + 1
    /\ quiet' = 0
    /\ IF /\ ValidProp(propID)
          /\ props[propID].isString
          /\ props[propID].setStringValue # newValue
       THEN /\ props' = [props EXCEPT
                            ![propID].debouncing = TRUE,
                            ![propID].latestSetTimeMs = clockMs,
                            ![propID].setStringValue =
                                Strncpy(newValue, props[propID].stringValueMaxLength)]
            /\ retry' = [retry EXCEPT ![propID] = NoMember]
            /\ lastCall' = Call("Trackle_Prop_updateString", propID, TRUE)
       ELSE /\ UNCHANGED <<props, retry>>
            /\ lastCall' = Call("Trackle_Prop_updateString", propID, FALSE)
    /\ UNCHANGED <<propGroups, numPropGroupsCreated, defaultValue, defaultChanged,
                   taskVars, staged, acked, elapsedVars, notifVars>>

\* Mutant: the call reports success for a handle that addresses no property.
Trackle_Prop_setDisabledAnyHandle(propID, isDisabled) ==
    /\ CanCall
    /\ calls' = calls + 1
    /\ quiet' = 0
    /\ IF ValidProp(propID)
       THEN props' = [props EXCEPT ![propID].disabled = isDisabled]
       ELSE UNCHANGED props
    /\ lastCall' = Call("Trackle_Prop_setDisabled", propID, TRUE)
    /\ UNCHANGED <<propGroups, numPropGroupsCreated, defaultValue, defaultChanged,
                   taskVars, staged, retry, acked, elapsedVars, notifVars>>

Trackle_Prop_setDisabled(propID, isDisabled) ==
    /\ CanCall
    /\ calls' = calls + 1
    /\ quiet' = 0
    /\ IF ValidProp(propID)
       THEN /\ props' = [props EXCEPT ![propID].disabled = isDisabled]
            /\ lastCall' = Call("Trackle_Prop_setDisabled", propID, TRUE)
       ELSE /\ UNCHANGED props
            /\ lastCall' = Call("Trackle_Prop_setDisabled", propID, FALSE)
    /\ UNCHANGED <<propGroups, numPropGroupsCreated, defaultValue, defaultChanged,
                   taskVars, staged, retry, acked, elapsedVars, notifVars>>

Trackle_Prop_setDebounceDelay(propID, debounceDelayMs) ==
    /\ CanCall
    /\ calls' = calls + 1
    /\ quiet' = 0
    /\ IF ValidProp(propID)
       THEN /\ props' = [props EXCEPT ![propID].debounceDelayMs = debounceDelayMs]
            /\ lastCall' = Call("Trackle_Prop_setDebounceDelay", propID, TRUE)
       ELSE /\ UNCHANGED props
            /\ lastCall' = Call("Trackle_Prop_setDebounceDelay", propID, FALSE)
    /\ UNCHANGED <<propGroups, numPropGroupsCreated, defaultValue, defaultChanged,
                   taskVars, staged, retry, acked, elapsedVars, notifVars>>

----------------------------------------------------------------------------
(* Helpers of the publishing task *)

\* The member appended for a property: "key":value
RenderValue(p) ==
    IF p.isString THEN "\"" \o CString(p.setStringValue) \o "\""
    ELSE IF p.scale = 1
         THEN IF p.sign THEN FormatPRIu32(p.setValue) ELSE FormatPRIi32(p.setValue)
         ELSE FormatFixed(p.setValue, p.scale, p.numDecimals)

RenderMember(p) == "\"" \o p.key \o "\":" \o RenderValue(p)

appendPropertyToJsonString(buffer, p) ==
    (IF Len(buffer) > 1 THEN buffer \o "," ELSE buffer) \o RenderMember(p)

isSetValueEqualToLastSent(p) ==
    IF p.isString THEN p.setStringValue = p.lastPubStringValue
    ELSE p.setValue = p.lastPubValue

updateLastSentToSetValue(p) ==
    IF p.isString THEN [p EXCEPT !.lastPubStringValue = p.setStringValue]
    ELSE [p EXCEPT !.lastPubValue = p.setValue]

\* Mutant: a pending debounce turns into changed without waiting for its delay.
DebouncePromotedAtOnce(p, nowMs) ==
    IF p.debouncing THEN [p EXCEPT !.debouncing = FALSE, !.changed = TRUE] ELSE p

\* Line 203: a pending debounce whose delay has elapsed turns into changed.
DebouncePromoted(p, nowMs) ==
    IF p.debouncing /\ isMsElapsed(nowMs, p.latestSetTimeMs, p.debounceDelayMs)
    THEN [p EXCEPT !.debouncing = FALSE, !.changed = TRUE]
    ELSE p

\* Mutant: disabled properties are published like the others.
MustPublishDisabledToo(p, onlyIfChanged, firstRun) ==
    \/ p.changed /\ ~isSetValueEqualToLastSent(p)
    \/ ~onlyIfChanged
    \/ firstRun

\* Mutant: the group policy is ignored, every group publishes only what changed.
MustPublishOnlyChanged(p, onlyIfChanged, firstRun) ==
    /\ ~p.disabled
    /\ \/ p.changed /\ ~isSetValueEqualToLastSent(p)
       \/ firstRun

\* Line 210: whether a member of an evaluated group goes into the payload.
MustPublish(p, onlyIfChanged, firstRun) ==
    /\ ~p.disabled
    /\ \/ p.changed /\ ~isSetValueEqualToLastSent(p)
       \/ ~onlyIfChanged
       \/ firstRun

\* Mutant: every group is evaluated in every iteration.
GroupDueAlways(g, nowMs, firstRun) == TRUE

\* Mutant: a group is evaluated only when its period has elapsed.
GroupDueByPeriod(g, nowMs, firstRun) ==
    isMsElapsed(nowMs, g.latestWakeTimeMs, g.periodMs)

\* Line 193: whether a group is evaluated in an iteration at nowMs.
GroupDue(g, nowMs, firstRun) ==
    isMsElapsed(nowMs, g.latestWakeTimeMs, g.periodMs) \/ firstRun

\* The body of the loop over the members of a group (lines 201-221), on the
\* state st = [props, jsonBuffer, propsToPublish, staged].
StageMember(st, propIdx, onlyIfChanged, nowMs, firstRun) ==
    LET p == DebouncePromoted(st.props[propIdx], nowMs)
    IN  IF MustPublish(p, onlyIfChanged, firstRun)
        THEN LET opened == IF st.propsToPublish THEN st.jsonBuffer
                           ELSE st.jsonBuffer \o "{"
             IN  [props |-> [st.props EXCEPT ![propIdx] =
                                updateLastSentToSetValue([p EXCEPT !.setToPublish = TRUE])],
                  jsonBuffer |-> appendPropertyToJsonString(opened, p),
                  propsToPublish |-> TRUE,
                  staged |-> Append(st.staged, <<propIdx, RenderMember(p)>>)]
        ELSE [st EXCEPT !.props[propIdx] = p]

RECURSIVE StageMembers(_, _, _, _, _, _)
StageMembers(st, members, i, onlyIfChanged, nowMs, firstRun) ==
    IF i > Len(members) THEN st
    ELSE StageMembers(StageMember(st, members[i], onlyIfChanged, nowMs, firstRun),
                      members, i + 1, onlyIfChanged, nowMs, firstRun)

\* The loop over the groups (lines 186-224).
RECURSIVE StageGroups(_, _, _, _)
StageGroups(st, pgIdx, nowMs, firstRun) ==
    IF pgIdx > numPropGroupsCreated THEN st
    ELSE LET g == propGroups[pgIdx]
             next == IF GroupDue(g, nowMs, firstRun)
                     THEN StageMembers(st, g.propsIndexes, 1, g.onlyIfChanged,
                                       nowMs, firstRun)
                     ELSE st
         IN  StageGroups(next, pgIdx + 1, nowMs, firstRun)

\* Mutant: no group restarts its period.
GroupsAfterTickKeeps(nowMs, firstRun) == propGroups

\* Line 196: the groups evaluated restart their period at nowMs.
GroupsAfterTick(nowMs, firstRun) ==
    [g \in DOMAIN propGroups |->
        IF g <= numPropGroupsCreated /\ GroupDue(propGroups[g], nowMs, firstRun)
        THEN [propGroups[g] EXCEPT !.latestWakeTimeMs = nowMs]
        ELSE propGroups[g]]

DueMembers(nowMs, firstRun) ==
    {propGroups[g].propsIndexes[i] :
        <<g, i>> \in {<<g, i>> \in (1..numPropGroupsCreated) \X (1..TRACKLE_MAX_PROPS_NUM) :
                         /\ GroupDue(propGroups[g], nowMs, firstRun)
                         /\ i <= Len(propGroups[g].propsIndexes)}}

\* Mutant: a successful publish takes the last published value from the set
\* value as it is when the publish returns.
AfterPublishSnapshots(p, publishedSuccessfully) ==
    IF publishedSuccessfully /\ p.setToPublish
    THEN updateLastSentToSetValue([p EXCEPT !.changed = FALSE])
    ELSE p

\* Mutant: no publish clears changed.
AfterPublishKeepsChanged(p, publishedSuccessfully) == p

\* Mutant: a successful publish clears changed of every property.
AfterPublishClearsAll(p, publishedSuccessfully) ==
    IF publishedSuccessfully THEN [p EXCEPT !.changed = FALSE] ELSE p

\* Lines 231-241: a successful publish clears changed of the staged properties.
AfterPublish(p, publishedSuccessfully) ==
    IF publishedSuccessfully /\ p.setToPublish THEN [p EXCEPT !.changed = FALSE] ELSE p

StagedProps == {staged[i][1] : i \in 1..Len(staged)}

StagedText(propIdx) ==
    LET i == CHOOSE j \in 1..Len(staged) : staged[j][1] = propIdx IN staged[i][2]

----------------------------------------------------------------------------
(* The publishing task: one iteration of its loop *)

\* vTaskDelayUntil returns one task period later.
NextWake == U32Add(clockMs, TRACKLE_PROPERTIES_TASK_PERIOD_MS)

\* Mutant: the debounce is promoted also when trackleConnected() is false.
TickNotConnectedPromotes ==
    /\ taskState = "waiting"
    /\ ticks < MaxTicks
    /\ ticks' = ticks + 1
    /\ clockMs' = NextWake
    /\ quiet' = 0
    /\ lastCall' = NoCall
    /\ props' = [i \in DOMAIN props |-> DebouncePromoted(props[i], NextWake)]
    /\ UNCHANGED <<propGroups, numPropGroupsCreated, defaultValue,
                   defaultChanged, taskState, first_run, jsonBuffer, calls, staged,
                   retry, acked, elapsedVars, notifVars>>

\* An iteration in which trackleConnected() is false.
TickNotConnected ==
    /\ taskState = "waiting"
    /\ ticks < MaxTicks
    /\ ticks' = ticks + 1
    /\ clockMs' = NextWake
    /\ quiet' = 0
    /\ lastCall' = NoCall
    /\ UNCHANGED <<props, propGroups, numPropGroupsCreated, defaultValue,
                   defaultChanged, taskState, first_run, jsonBuffer, calls, staged,
                   retry, acked, elapsedVars, notifVars>>

\* An iteration in which trackleConnected() is true, up to the call of
\* trackleSyncStateSecure (or to the end of the iteration when nothing is staged).
TickConnected ==
    /\ taskState = "waiting"
    /\ ticks < MaxTicks
    /\ ticks' = ticks + 1
    /\ clockMs' = NextWake
    /\ LET nowMs == NextWake
           st == StageGroups([props |-> props, jsonBuffer |-> jsonBuffer,
                              propsToPublish |-> FALSE, staged |-> <<>>],
                             1, nowMs, first_run)
           due == DueMembers(nowMs, first_run)
       IN  /\ props' = st.props
           /\ propGroups' = GroupsAfterTick(nowMs, first_run)
           /\ staged' = st.staged
           /\ retry' = [i \in DOMAIN retry |-> IF i \in due THEN NoMember ELSE retry[i]]
           /\ IF st.propsToPublish
              THEN /\ jsonBuffer' = st.jsonBuffer \o "}"
                   /\ taskState' = "publishing"
                   /\ quiet' = quiet
              ELSE /\ jsonBuffer' = st.jsonBuffer
                   /\ taskState' = "waiting"
                   /\ quiet' = IF quiet < MaxQuiet THEN quiet + 1 ELSE quiet
    /\ lastCall' = NoCall
    /\ UNCHANGED <<numPropGroupsCreated, defaultValue, defaultChanged, first_run,
                   calls, acked, elapsedVars, notifVars>>

\* A connected iteration during which another task runs Trackle_Prop_update on
\* the numeric property racedProp, nothing serialising the two: the three writes
\* of the update (lines 375-377) fall between the rendering of the property
\* (line 218) and the copy of its set value into its last published value
\* (line 220), at the last staging of the property in the iteration.
TickConnectedRaced(racedProp, newValue) ==
    /\ taskState = "waiting"
    /\ ticks < MaxTicks
    /\ calls < MaxCalls
    /\ ValidProp(racedProp)
    /\ ~props[racedProp].isString
    /\ ticks' = ticks + 1
    /\ calls' = calls + 1
    /\ clockMs' = NextWake
    /\ LET nowMs == NextWake
           st == StageGroups([props |-> props, jsonBuffer |-> jsonBuffer,
                              propsToPublish |-> FALSE, staged |-> <<>>],
                             1, nowMs, first_run)
           due == DueMembers(nowMs, first_run)
       IN  /\ \E i \in 1..Len(st.staged) : st.staged[i][1] = racedProp
           /\ st.props[racedProp].setValue # newValue
           /\ props' = [st.props EXCEPT ![racedProp] =
                           updateLastSentToSetValue(
                               [@ EXCEPT !.debouncing = TRUE,
                                         !.latestSetTimeMs = nowMs,
                                         !.setValue = newValue])]
           /\ propGroups' = GroupsAfterTick(nowMs, first_run)
           /\ staged' = st.staged
           /\ retry' = [i \in DOMAIN retry |-> IF i \in due THEN NoMember ELSE retry[i]]
           /\ jsonBuffer' = st.jsonBuffer \o "}"
           /\ taskState' = "publishing"
    /\ quiet' = 0
    /\ lastCall' = Call("Trackle_Prop_update", racedProp, TRUE)
    /\ UNCHANGED <<numPropGroupsCreated, defaultValue, defaultChanged, first_run,
                   acked, elapsedVars, notifVars>>

\* trackleSyncStateSecure returns and the iteration ends (lines 230-246).
PublishReturn(publishedSuccessfully) ==
    /\ taskState = "publishing"
    /\ props' = [i \in DOMAIN props |->
                    [AfterPublish(props[i], publishedSuccessfully)
                        EXCEPT !.setToPublish = FALSE]]
    /\ first_run' = IF publishedSuccessfully THEN FALSE ELSE first_run
    /\ jsonBuffer' = ""
    /\ taskState' = "waiting"
    /\ staged' = <<>>
    /\ retry' = [i \in DOMAIN retry |->
                    IF /\ i \in StagedProps
                       /\ ~publishedSuccessfully
                       /\ StagedText(i) = RenderMember(props[i])
                    THEN StagedText(i) ELSE retry[i]]
    /\ acked' = [i \in DOMAIN acked |->
                    IF i \in StagedProps /\ publishedSuccessfully
                    THEN StagedText(i) ELSE acked[i]]
    /\ quiet' = IF publishedSuccessfully /\ lastCall = NoCall
                THEN (IF quiet < MaxQuiet THEN quiet + 1 ELSE quiet)
                ELSE 0
    /\ lastCall' = NoCall
    /\ UNCHANGED <<propGroups, numPropGroupsCreated, defaultValue, defaultChanged,
                   clockMs, ticks, calls, elapsedVars, notifVars>>

----------------------------------------------------------------------------
(* The notifications engine: registry and rendering *)

\* Capacity of the notification registry; 20 in the header, scaled down here so
\* that a full registry is reached.
TRACKLE_MAX_NOTIFICATIONS_NUM == 2
Trackle_NotificationID_ERROR == -1
NOTIFICATION_NAME_LENGTH == 64
NOTIFICATION_EVENT_LENGTH == 64
NOTIFICATION_FORMAT_LENGTH == 128
\* sizeof(valueBuffer)
VALUE_BUFFER_LEN == 32

\* A C string that may be NULL, and an array of them that may be NULL.
NullString == [isNull |-> TRUE, chars |-> <<>>]
StringOf(chars) == [isNull |-> FALSE, chars |-> chars]
NullMap == [isNull |-> TRUE, entries |-> <<>>]
MapOf(entries) == [isNull |-> FALSE, entries |-> entries]

ValidNotification(notificationID) ==
    notificationID >= 1 /\ notificationID <= Len(notifications)

NotificationKeys == {notifications[i].key : i \in 1..Len(notifications)}

\* strlen(format): a format is the sequence of its conversions and literal pieces.
RECURSIVE FormatLength(_)
FormatLength(format) ==
    IF format = <<>> THEN 0 ELSE Len(Head(format)) + FormatLength(Tail(format))

IsConversion(piece) == piece \in {"%s", "%u", "%d"}

\* sprintf(buffer, format, args...): every conversion takes the next argument,
\* given here as the text that conversion prints for it.
RECURSIVE Sprintf(_, _)
Sprintf(format, args) ==
    IF format = <<>> THEN ""
    ELSE IF IsConversion(Head(format)) /\ args # <<>>
         THEN Head(args) \o Sprintf(Tail(format), Tail(args))
         ELSE Head(format) \o Sprintf(Tail(format), args)

\* snprintf(valueBuffer, sizeof(valueBuffer), "\"%s\"", mappedString): at most
\* sizeof(valueBuffer) - 1 characters are stored.
QuotedInValueBuffer(chars) ==
    LET quoted == <<"\"">> \o chars \o <<"\"">>
    IN  CString(IF Len(quoted) <= VALUE_BUFFER_LEN - 1 THEN quoted
                ELSE SubSeq(quoted, 1, VALUE_BUFFER_LEN - 1))

\* Lines 52-55: whether the value selects an entry of the value map.
MapEntrySelected(n) ==
    /\ ~n.valueMap.isNull
    /\ n.valueMapSize > 0
    /\ n.value >= 0
    /\ n.value < n.valueMapSize

\* Lines 47-93: the text left in valueBuffer.
NotificationValueText(n) ==
    IF MapEntrySelected(n)
    THEN LET mappedString == n.valueMap.entries[n.value + 1]
         IN  IF ~mappedString.isNull THEN QuotedInValueBuffer(mappedString.chars)
             ELSE IF n.sign THEN FormatPRIi32(n.value) ELSE FormatPRIu32(n.value)
    ELSE IF n.scale = 1
         THEN IF n.sign THEN FormatPRIi32(n.value) ELSE FormatPRIu32(n.value)
         ELSE FormatFixed(n.value, n.scale, n.numDecimals)

makeMessageStringFromNotification(n) ==
    Sprintf(n.format, <<n.key, DecimalOfNat(n.level), NotificationValueText(n)>>)

NewNotification(name, eventName, format, scale, numDecimals, sign, valueMap, valueMapSize) ==
    [key |-> name, event |-> eventName, format |-> format, changed |-> FALSE,
     sign |-> sign, value |-> -1, scale |-> scale, numDecimals |-> numDecimals,
     level |-> 0, valueMap |-> valueMap, valueMapSize |-> valueMapSize]

\* Whether a creation call gets past the capacity, duplicate and length checks.
\* (A call that fails at a later check has copied its name into the first free
\* slot; that slot is outside the registry and is written anew by the next
\* creation that succeeds.)
NotificationCreateAccepted(name, eventName, format) ==
    /\ Len(notifications) < TRACKLE_MAX_NOTIFICATIONS_NUM
    /\ name \notin NotificationKeys
    /\ Len(name) < NOTIFICATION_NAME_LENGTH
    /\ Len(eventName) < NOTIFICATION_EVENT_LENGTH
    /\ FormatLength(format) < NOTIFICATION_FORMAT_LENGTH

Trackle_Notification_createWithValueMap(name, eventName, format, scale, numDecimals, sign, valueMap, valueMapSize) ==
    /\ nTaskState = "setup"
    /\ IF NotificationCreateAccepted(name, eventName, format)
       THEN /\ notifications' =
                   Append(notifications,
                          NewNotification(name, eventName, format, scale, numDecimals,
                                          sign, valueMap, valueMapSize))
            /\ lastFailed' = Append(lastFailed, NoMember)
            /\ lastCall' = Call("Trackle_Notification_create",
                                Len(notifications) + 1, TRUE)
       ELSE /\ UNCHANGED <<notifications, lastFailed>>
            /\ lastCall' = Call("Trackle_Notification_create",
                                Trackle_NotificationID_ERROR, FALSE)
    /\ UNCHANGED <<props, propGroups, numPropGroupsCreated, defaultValue,
                   defaultChanged, taskVars, calls, staged, retry, acked, quiet,
                   elapsedVars, nTaskState, aIdx, messageBuffer, nTicks, attempts,
                   renderVars>>

Trackle_Notification_create(name, eventName, format, scale, numDecimals, sign) ==
    Trackle_Notification_createWithValueMap(name, eventName, format, scale,
                                            numDecimals, sign, NullMap, 0)

\* Line 147: the test of the result in Trackle_Notifications_startTask.
NotificationsTaskStarted(taskCreationRes) == taskCreationRes # ESP_OK

\* taskCreationRes: the result of xTaskCreatePinnedToCore, which has created the
\* task when it returns pdPASS.
Trackle_Notifications_startTask(taskCreationRes) ==
    /\ nTaskState = "setup"
    /\ IF taskCreationRes = pdPASS
       THEN /\ nTaskState' = "waiting"
            /\ lastFailed' = [i \in DOMAIN notifications |-> NoMember]
       ELSE UNCHANGED <<nTaskState, lastFailed>>
    /\ lastCall' = Call("Trackle_Notifications_startTask", 0,
                        NotificationsTaskStarted(taskCreationRes))
    /\ UNCHANGED <<props, propGroups, numPropGroupsCreated, defaultValue,
                   defaultChanged, taskVars, calls, staged, retry, acked, quiet,
                   elapsedVars, notifications, aIdx, messageBuffer, nTicks, attempts,
                   renderVars>>

----------------------------------------------------------------------------
(* The notifications engine: update call and publishing task *)

MaxNotifTicks == 3

CanCallNotification == nTaskState # "setup" /\ calls < MaxCalls

\* Mutant: every update is taken as a change.
LevelDiffersAlways(n, newLevel) == TRUE

\* Line 216: whether the update carries a new level.
LevelDiffers(n, newLevel) == n.level # newLevel

Trackle_Notification_update(notificationID, newLevel, value) ==
    /\ CanCallNotification
    /\ calls' = calls + 1
    /\ IF ValidNotification(notificationID)
       THEN /\ IF LevelDiffers(notifications[notificationID], newLevel)
               THEN /\ notifications' =
                           [notifications EXCEPT ![notificationID].changed = TRUE,
                                                 ![notificationID].value = value,
                                                 ![notificationID].level = newLevel]
                    /\ lastFailed' = [lastFailed EXCEPT ![notificationID] = NoMember]
               ELSE UNCHANGED <<notifications, lastFailed>>
            /\ lastCall' = Call("Trackle_Notification_update", notificationID, TRUE)
       ELSE /\ UNCHANGED <<notifications, lastFailed>>
            /\ lastCall' = Call("Trackle_Notification_update", notificationID, FALSE)
    /\ UNCHANGED <<props, propGroups, numPropGroupsCreated, defaultValue,
                   defaultChanged, taskVars, staged, retry, acked, quiet,
                   elapsedVars, nTaskState, aIdx, messageBuffer, nTicks, attempts,
                   renderVars>>

\* Mutant: the loop publishes the next notification, changed or not.
NextChangedOrNot(ns, from) == IF from < Len(ns) THEN from + 1 ELSE 0

\* Lines 114-117: the first notification after index from whose changed flag is
\* set in ns, or 0 when the loop ends without finding one.
NextChanged(ns, from) ==
    IF \E j \in (from + 1)..Len(ns) : ns[j].changed
    THEN CHOOSE j \in (from + 1)..Len(ns) :
             /\ ns[j].changed
             /\ \A k \in (from + 1)..(j - 1) : ~ns[k].changed
    ELSE 0

\* The loop of lines 114-127 resumed after index from: it runs up to the next
\* call of tracklePublishSecure, or to the end of the iteration.
NotificationLoopFrom(ns, from) ==
    LET j == NextChanged(ns, from)
    IN  IF j = 0
        THEN /\ nTaskState' = "waiting"
             /\ aIdx' = 0
             /\ messageBuffer' = messageBuffer
        ELSE /\ nTaskState' = "publishing"
             /\ aIdx' = j
             /\ messageBuffer' = makeMessageStringFromNotification(ns[j])

\* vTaskDelayUntil returns and the loop over the notifications starts.
NotificationsTick ==
    /\ nTaskState = "waiting"
    /\ nTicks < MaxNotifTicks
    /\ nTicks' = nTicks + 1
    /\ attempts' = <<>>
    /\ NotificationLoopFrom(notifications, 0)
    /\ lastCall' = NoCall
    /\ UNCHANGED <<props, propGroups, numPropGroupsCreated, defaultValue,
                   defaultChanged, taskVars, calls, staged, retry, acked, quiet,
                   elapsedVars, notifications, lastFailed, renderVars>>

\* Mutant: changed is cleared whatever the publish returned.
AfterNotificationPublishClears(n, success) == [n EXCEPT !.changed = FALSE]

\* Lines 121-125: the result of the publish of notification aIdx.
AfterNotificationPublish(n, success) ==
    IF success THEN [n EXCEPT !.changed = FALSE] ELSE n

\* tracklePublishSecure returns and the loop goes on with the next notification.
NotificationPublishReturn(success) ==
    /\ nTaskState = "publishing"
    /\ notifications' = [notifications EXCEPT
                            ![aIdx] = AfterNotificationPublish(notifications[aIdx], success)]
    /\ attempts' = Append(attempts,
                          <<aIdx, notifications[aIdx].event, messageBuffer, success>>)
    /\ lastFailed' = [lastFailed EXCEPT ![aIdx] =
                         IF /\ ~success
                            /\ messageBuffer =
                                   makeMessageStringFromNotification(notifications[aIdx])
                         THEN messageBuffer ELSE NoMember]
    /\ NotificationLoopFrom(notifications', aIdx)
    /\ lastCall' = NoCall
    /\ UNCHANGED <<props, propGroups, numPropGroupsCreated, defaultValue,
                   defaultChanged, taskVars, calls, staged, retry, acked, quiet,
                   elapsedVars, nTicks, renderVars>>

----------------------------------------------------------------------------
(* The specifications *)

\* The registry before any call: the zero-initialised static arrays.
InitSetup ==
    /\ props = <<>>
    /\ propGroups = [g \in 1..TRACKLE_MAX_PROPGROUPS_NUM |-> NewPropGroup(<<0, 0>>, FALSE)]
    /\ numPropGroupsCreated = 0
    /\ defaultValue = 0
    /\ defaultChanged = TRUE
    /\ taskState = "setup"
    /\ first_run = TRUE
    /\ jsonBuffer = ""
    /\ clockMs \in StartClocksMs
    /\ ticks = 0
    /\ calls = 0
    /\ staged = <<>>
    /\ retry = <<>>
    /\ acked = <<>>
    /\ quiet = 0
    /\ lastCall = NoCall
    /\ eNow = <<0, 0>> /\ eStart = <<0, 0>> /\ eDelay = <<0, 0>> /\ eResult = <<>>
    /\ notifications = <<>>
    /\ nTaskState = "setup"
    /\ aIdx = 0
    /\ messageBuffer = ""
    /\ nTicks = 0
    /\ attempts = <<>>
    /\ lastFailed = <<>>
    /\ rInput = <<>>
    /\ rOutput = <<>>

Setup ==
    \/ \E v \in DefaultValues, c \in BOOLEAN : Trackle_Prop_setDefaults(v, c)
    \/ \E n \in Names, k \in NumericKinds : Trackle_Prop_create(n, k[1], k[2], k[3])
    \/ \E n \in Names, m \in StringMaxLengths, ok \in BOOLEAN :
           Trackle_Prop_createString(n, m, ok)
    \/ \E per \in PeriodsMs, oic \in BOOLEAN : Trackle_PropGroup_create(per, oic)
    \/ \E p \in 0..(Len(props) + 1), g \in 0..(numPropGroupsCreated + 1),
          pastEnd \in BOOLEAN : Trackle_PropGroup_addProp(p, g, pastEnd)
    \/ \E res \in TaskCreationResults : Trackle_Props_startTask(res)

SpecSetup == InitSetup /\ [][Setup]_vars

\* The application set up as the header prescribes (defaults, properties,
\* groups, memberships, then Trackle_Props_startTask): a numeric property "a"
\* with a debounce delay of 200 ms and a string property "b" without debounce,
\* two groups, and the task started at a clock of StartClocksMs.  Apps lists the
\* set-ups explored, each with the defaultChanged its properties were created
\* under: in the first "a" belongs to both groups, in the second the groups are
\* disjoint and publish only changes.
\* Tick counts in milliseconds around 0, 2^31 and 2^32.
SampleTimesMs ==
    { <<0, 0>>, <<0, 1>>, <<0, 100>>, <<HalfMod \div 2 - 1, HalfMod - 1>>,
      <<HalfMod \div 2, 0>>, <<HalfMod - 1, HalfMod - 100>>, UINT32_MAX }

\* One call of isMsElapsed on sampled arguments; eResult holds the returned value.
CallIsMsElapsed ==
    /\ eResult = <<>>
    /\ eResult' = <<isMsElapsed(eNow, eStart, eDelay)>>
    /\ UNCHANGED <<props, propGroups, numPropGroupsCreated, defaultValue,
                   defaultChanged, taskVars, calls, historyVars, eNow, eStart, eDelay,
                   notifVars>>

InitElapsed ==
    /\ props = <<>>
    /\ propGroups = [g \in 1..TRACKLE_MAX_PROPGROUPS_NUM |-> NewPropGroup(<<0, 0>>, FALSE)]
    /\ numPropGroupsCreated = 0
    /\ defaultValue = 0
    /\ defaultChanged = TRUE
    /\ taskState = "setup"
    /\ first_run = TRUE
    /\ jsonBuffer = ""
    /\ clockMs = <<0, 0>>
    /\ ticks = 0
    /\ calls = 0
    /\ staged = <<>>
    /\ retry = <<>>
    /\ acked = <<>>
    /\ quiet = 0
    /\ lastCall = NoCall
    /\ eNow \in SampleTimesMs
    /\ eStart \in SampleTimesMs
    /\ eDelay \in SampleTimesMs
    /\ eResult = <<>>
    /\ notifications = <<>>
    /\ nTaskState = "setup"
    /\ aIdx = 0
    /\ messageBuffer = ""
    /\ nTicks = 0
    /\ attempts = <<>>
    /\ lastFailed = <<>>
    /\ rInput = <<>>
    /\ rOutput = <<>>

SpecElapsed == InitElapsed /\ [][CallIsMsElapsed]_vars

Group(periodMs, onlyIfChanged, members) ==
    [NewPropGroup(periodMs, onlyIfChanged) EXCEPT !.propsIndexes = members]

Apps ==
    { [changed |-> TRUE,
       groups |-> <<Group(<<0, 100>>, TRUE, <<1>>), Group(<<0, 200>>, FALSE, <<1, 2>>)>>],
      [changed |-> FALSE,
       groups |-> <<Group(<<0, 100>>, TRUE, <<2>>), Group(<<0, 200>>, TRUE, <<1>>)>>] }

\* The properties engine after its set-up, the task started and no tick yet.
PropertiesStarted ==
    /\ clockMs \in StartClocksMs
    /\ defaultValue \in DefaultValues
    /\ \E app \in Apps :
           /\ defaultChanged = app.changed
           /\ propGroups = [g \in 1..TRACKLE_MAX_PROPGROUPS_NUM |->
                               IF g <= Len(app.groups)
                               THEN [app.groups[g] EXCEPT !.latestWakeTimeMs = clockMs]
                               ELSE NewPropGroup(<<0, 0>>, FALSE)]
           /\ numPropGroupsCreated = Len(app.groups)
    /\ props = <<[NewProp("a", 1, 0, FALSE) EXCEPT !.debounceDelayMs = <<0, 200>>],
                 NewStringProp("b", 1)>>
    /\ taskState = "waiting"
    /\ first_run = TRUE
    /\ jsonBuffer = ""
    /\ ticks = 0
    /\ calls = 0
    /\ staged = <<>>
    /\ retry = <<NoMember, NoMember>>
    /\ acked = <<NoMember, NoMember>>
    /\ quiet = 0
    /\ lastCall = NoCall
    /\ eNow = <<0, 0>> /\ eStart = <<0, 0>> /\ eDelay = <<0, 0>> /\ eResult = <<>>
    /\ rInput = <<>>
    /\ rOutput = <<>>

\* The notifications engine before any call.
NotificationsNotStarted ==
    /\ notifications = <<>>
    /\ nTaskState = "setup"
    /\ aIdx = 0
    /\ messageBuffer = ""
    /\ nTicks = 0
    /\ attempts = <<>>
    /\ lastFailed = <<>>

Init == PropertiesStarted /\ NotificationsNotStarted

Calls ==
    \/ \E p \in 0..(Len(props) + 1), v \in NewValues \cup DefaultValues :
           Trackle_Prop_update(p, v)
    \/ \E p \in 0..(Len(props) + 1), v \in NewStrings : Trackle_Prop_updateString(p, v)
    \/ \E p \in 0..(Len(props) + 1), d \in BOOLEAN : Trackle_Prop_setDisabled(p, d)
    \/ \E p \in 0..(Len(props) + 1), d \in DebounceDelaysMs :
           Trackle_Prop_setDebounceDelay(p, d)

Task ==
    \/ TickNotConnected
    \/ TickConnected
    \/ \E ok \in BOOLEAN : PublishReturn(ok)

Next == Calls \/ Task

Spec == Init /\ [][Next]_vars

\* The application updates its properties from a task of its own, which may run
\* in the middle of an iteration of the properties task.
RacingCalls ==
    \E p \in 0..(Len(props) + 1), v \in NewValues \cup DefaultValues :
        TickConnectedRaced(p, v)

SpecRace == Init /\ [][Next \/ RacingCalls]_vars

\* The notifications of the application: "over" is a plain signed integer, "mode"
\* is unsigned and has a value map with one entry.
MessageFormat == <<"%s", ":", "%u", ":", "%s">>

NotificationsStarted ==
    /\ notifications =
           <<NewNotification("over", "e1", MessageFormat, 1, 0, TRUE, NullMap, 0),
             NewNotification("mode", "e2", MessageFormat, 1, 0, FALSE,
                             MapOf(<<StringOf(<<"o", "n">>)>>), 1)>>
    /\ nTaskState = "waiting"
    /\ aIdx = 0
    /\ messageBuffer = ""
    /\ nTicks = 0
    /\ attempts = <<>>
    /\ lastFailed = <<NoMember, NoMember>>

NewLevels == {0, 1}
NotificationValues == {0, 5}

NotificationCalls ==
    \E a \in 0..(Len(notifications) + 1), l \in NewLevels, v \in NotificationValues :
        Trackle_Notification_update(a, l, v)

NotificationsTask ==
    \/ NotificationsTick
    \/ \E success \in BOOLEAN : NotificationPublishReturn(success)

\* Both engines set up and the notifications task running; the application calls
\* the functions of both engines.
InitNotifications == PropertiesStarted /\ NotificationsStarted

NextNotifications == Calls \/ NotificationCalls \/ NotificationsTask

SpecNotifications == InitNotifications /\ [][NextNotifications]_vars

----------------------------------------------------------------------------
(* Claims about the properties engine *)

MembersOf(g) == {propGroups[g].propsIndexes[i] : i \in 1..Len(propGroups[g].propsIndexes)}

GroupedProps == UNION {MembersOf(g) : g \in 1..numPropGroupsCreated}

\* C1: when the batched publish fails, the failure leaves the changed flag of
\* every staged property as it was, and on the next connected iteration in which
\* a group of the property is evaluated (the property still enabled and not
\* updated in between) the property is staged again with the identical member.
C1_RetryAfterFailedPublish ==
    [][ /\ PublishReturn(FALSE) =>
              \A p \in StagedProps : props[p].changed => props'[p].changed
        /\ TickConnected =>
              \A p \in DOMAIN props :
                  ( /\ retry[p] # NoMember
                    /\ ~props[p].disabled
                    /\ p \in DueMembers(clockMs', first_run) )
                  => \E i \in 1..Len(staged') : staged'[i] = <<p, retry[p]>>
      ]_vars

\* Iterations after which an undisturbed pending value is due for publication:
\* the task period divides the debounce delays and group periods of the model.
PeriodsIn(ms) == ms[2] \div TRACKLE_PROPERTIES_TASK_PERIOD_MS[2]

QuietNeeded(p) ==
    LET needs == {PeriodsIn(props[p].debounceDelayMs) + PeriodsIn(propGroups[g].periodMs) :
                     g \in {h \in 1..numPropGroupsCreated : p \in MembersOf(h)}}
    IN  CHOOSE n \in needs : \A m \in needs : n <= m

\* The property holds a value given by an update, not the value of its creation.
HoldsUpdate(p) ==
    IF props[p].isString THEN props[p].setStringValue # <<>>
    ELSE props[p].setValue # defaultValue

\* C2: at-least-once delivery, in the form a finite run decides: once the task
\* has run QuietNeeded(p) iterations in a row connected, without a failed publish
\* and without an API call, the value that an update gave to an enabled property
\* p of a group is the value last published successfully for p.
C2_DeliveredWhenQuiet ==
    \A p \in GroupedProps :
        ( /\ taskState = "waiting"
          /\ ~props[p].disabled
          /\ HoldsUpdate(p)
          /\ quiet >= QuietNeeded(p) )
        => acked[p] = RenderMember(props[p])

\* C3 as claimed: a property whose changed flag is true has a set value that
\* differs from its last published value.
C3_ChangedImpliesDiffers ==
    \A p \in DOMAIN props : props[p].changed => ~isSetValueEqualToLastSent(props[p])

\* C3 as amended: changed may be true while the values are equal (a property just
\* created with the default changed flag, a property staged in a failed publish,
\* a value set back); what holds is that a property whose set value differs from
\* its last published value has changed set or its debounce pending.
C3_DiffersImpliesChangedOrPending ==
    \A p \in DOMAIN props :
        ~isSetValueEqualToLastSent(props[p]) => (props[p].changed \/ props[p].debouncing)

\* A property promoted by the debounce and not published yet, after an iteration.
C3_Witness ==
    \E p \in DOMAIN props :
        /\ ticks > 0
        /\ ~isSetValueEqualToLastSent(props[p])
        /\ props[p].changed
        /\ ~props[p].debouncing

\* The step is an update call (numeric or string) on property p that found a new
\* value.
EffectiveUpdate(p) ==
    /\ calls' = calls + 1
    /\ lastCall'.op \in {"Trackle_Prop_update", "Trackle_Prop_updateString"}
    /\ lastCall'.handle = p
    /\ lastCall'.result

\* C4: debounce suppression.  The changed flag of a property turns true only by
\* the promotion of a pending debounce, which ends the pending state, and not
\* before debounceDelayMs has elapsed (modulo 2^32) since latestSetTimeMs; every
\* update that finds a new value sets latestSetTimeMs to the time of the call,
\* leaves the property pending and does not touch changed; and nothing else makes
\* a property pending.  A burst of updates less than debounceDelayMs apart thus
\* yields at most one transition, timed from its last update.
C4_DebounceSuppression ==
    [][ \A p \in DOMAIN props :
          /\ (~props[p].changed /\ props'[p].changed) =>
                /\ props[p].debouncing
                /\ ~props'[p].debouncing
                /\ U32Geq(U32Sub(clockMs', props[p].latestSetTimeMs),
                          props[p].debounceDelayMs)
          /\ EffectiveUpdate(p) =>
                /\ props'[p].latestSetTimeMs = clockMs
                /\ props'[p].debouncing
                /\ props'[p].changed = props[p].changed
          /\ (~props[p].debouncing /\ props'[p].debouncing) => EffectiveUpdate(p)
      ]_vars

\* Property "a" (delay 200 ms) was updated twice, to 1 and back; its group was
\* evaluated 100 ms after the second update and the property is still pending
\* and not changed.
C4_Witness ==
    /\ calls = 2
    /\ props[1].setValue = defaultValue
    /\ props[1].debouncing
    /\ ~props[1].changed
    /\ U32Sub(clockMs, props[1].latestSetTimeMs) = <<0, 100>>
    /\ \E g \in 1..numPropGroupsCreated :
           1 \in MembersOf(g) /\ propGroups[g].latestWakeTimeMs = clockMs

\* C5: idempotent no-op update.  Trackle_Prop_update called with the stored set
\* value, and Trackle_Prop_updateString called with the stored string, leave every
\* field of every property as it was: changed, debouncing, latestSetTimeMs and
\* the stored value of that property, and all other properties.
C5_NoOpUpdate ==
    [][ \A p \in DOMAIN props :
          /\ \A v \in NewValues \cup DefaultValues :
                (Trackle_Prop_update(p, v) /\ props[p].setValue = v) =>
                    (props' = props /\ ~lastCall'.result)
          /\ \A v \in NewStrings :
                (Trackle_Prop_updateString(p, v) /\ props[p].setStringValue = v) =>
                    (props' = props /\ ~lastCall'.result)
      ]_vars

\* An update with the stored value arrived while the property's debounce, started
\* at an earlier time, was pending.
C5_Witness ==
    /\ lastCall.op = "Trackle_Prop_update"
    /\ ValidProp(lastCall.handle)
    /\ ~lastCall.result
    /\ props[lastCall.handle].debouncing
    /\ props[lastCall.handle].latestSetTimeMs # clockMs

\* The same for a string property.
C5_WitnessString ==
    /\ lastCall.op = "Trackle_Prop_updateString"
    /\ ValidProp(lastCall.handle)
    /\ ~lastCall.result
    /\ props[lastCall.handle].setStringValue # <<>>
    /\ props[lastCall.handle].debouncing

\* C6: wraparound correctness.  For 32-bit unsigned now, start and delay,
\* isMsElapsed(now, start, delay) equals ((now - start) mod 2^32) >= delay, also
\* when the counter wrapped between start and now (now < start).
C6_ElapsedModulo ==
    eResult # <<>> => (eResult[1] <=> U32Geq(U32Sub(eNow, eStart), eDelay))

\* The counter wrapped between start and now, 101 ms passed and the delay of
\* 100 ms is reported as elapsed.
C6_Witness ==
    /\ eResult = <<TRUE>>
    /\ U32Less(eNow, eStart)
    /\ eStart = <<HalfMod - 1, HalfMod - 100>>
    /\ eNow = <<0, 1>>
    /\ eDelay = <<0, 100>>

\* The members of a payload, in order, separated by commas.
RECURSIVE JoinMembers(_)
JoinMembers(entries) ==
    IF entries = <<>> THEN ""
    ELSE IF Len(entries) = 1 THEN entries[1][2]
    ELSE entries[1][2] \o "," \o JoinMembers(Tail(entries))

\* Whether property p has changed set when the iteration at nowMs evaluates it:
\* it was set before, or its pending debounce has run out.
ChangedAt(p, nowMs) ==
    \/ props[p].changed
    \/ /\ props[p].debouncing
       /\ U32Geq(U32Sub(nowMs, props[p].latestSetTimeMs), props[p].debounceDelayMs)

\* Whether property p belongs in the payload of the iteration at nowMs.
Included(p, nowMs) ==
    \E g \in 1..numPropGroupsCreated :
        /\ GroupDue(propGroups[g], nowMs, first_run)
        /\ p \in MembersOf(g)
        /\ ~props[p].disabled
        /\ \/ ChangedAt(p, nowMs) /\ ~isSetValueEqualToLastSent(props[p])
           \/ ~propGroups[g].onlyIfChanged
           \/ first_run

\* C7: batch composition.  On a connected tick the payload has a member for
\* property p if and only if p is a member of some group due on that tick, p is
\* not disabled, and p is changed with a value different from its last published
\* one, or that group always publishes, or the first-tick latch is set; the
\* members of all due groups form one flat object, each rendered from its
\* property, and a publish is started exactly when there is a member.
C7_BatchComposition ==
    [][ TickConnected =>
          /\ \A p \in DOMAIN props : p \in StagedProps' <=> Included(p, clockMs')
          /\ \A i \in 1..Len(staged') :
                 staged'[i][2] = RenderMember(props[staged'[i][1]])
          /\ (taskState' = "publishing") <=> (staged' # <<>>)
          /\ jsonBuffer' = IF staged' = <<>> THEN ""
                           ELSE "{" \o JoinMembers(staged') \o "}"
      ]_vars

\* After the first tick, two only-if-changed groups without common members are
\* due on the same tick and the payload holds the changed member of each.
C7_Witness ==
    /\ ~first_run
    /\ taskState = "publishing"
    /\ Len(staged) = 2
    /\ StagedProps = {1, 2}
    /\ \A g \in 1..numPropGroupsCreated :
           /\ propGroups[g].onlyIfChanged
           /\ propGroups[g].latestWakeTimeMs = clockMs
    /\ MembersOf(1) \cap MembersOf(2) = {}

\* C8: every payload has at most one member per property, also when the property
\* belongs to several groups due on the same tick.
C8_OneMemberPerProperty ==
    \A i, j \in 1..Len(staged) : staged[i][1] = staged[j][1] => i = j

\* No publish has succeeded since the task started.
NoSuccessYet == \A p \in DOMAIN acked : acked[p] = NoMember

\* C9: initial full state sync.  As long as no publish has succeeded, every
\* connected tick puts every enabled property that is a member of a group into
\* the payload, whatever the periods and policies of the groups, the changed
\* flags and the number of failed attempts; so the first payload published
\* successfully holds all of them.
C9_InitialFullSync ==
    [][ (TickConnected /\ NoSuccessYet) =>
            \A p \in GroupedProps : ~props[p].disabled => p \in StagedProps'
      ]_vars

\* Third tick without a success and without any update, properties created not
\* changed: both properties are in the payload.
C9_Witness ==
    /\ taskState = "publishing"
    /\ NoSuccessYet
    /\ ticks = 3
    /\ calls = 0
    /\ ~defaultChanged
    /\ \A p \in DOMAIN props : ~props[p].changed
    /\ StagedProps = GroupedProps
    /\ GroupedProps = {1, 2}

\* What the task and Trackle_Prop_setDisabled never do to a disabled property:
\* stage it, alter its last published value, or change anything but disabled.
DisabledUntouched(p) ==
    /\ (TickConnected /\ props[p].disabled) =>
           (p \notin StagedProps' /\ ~props'[p].setToPublish)
    /\ props[p].disabled =>
           /\ props'[p].lastPubValue = props[p].lastPubValue
           /\ props'[p].lastPubStringValue = props[p].lastPubStringValue
    /\ \A d \in BOOLEAN :
           Trackle_Prop_setDisabled(p, d) =>
               props' = [props EXCEPT ![p].disabled = d]

\* C10 as stated: a disabled property is never staged, its last published value
\* is not altered, Trackle_Prop_setDisabled changes nothing but disabled, and
\* the changed flag of a disabled property is never cleared.
C10_DisabledKeepsChanged ==
    [][ \A p \in DOMAIN props :
          /\ DisabledUntouched(p)
          /\ (props[p].disabled /\ props[p].changed) => props'[p].changed
      ]_vars

\* C10, amended: the same, but the changed flag of a disabled property is cleared
\* in one case only, when the property was staged before it was disabled and
\* that publish succeeds.
C10_DisabledNeverStaged ==
    [][ \A p \in DOMAIN props :
          /\ DisabledUntouched(p)
          /\ (props[p].disabled /\ props[p].changed /\ ~props'[p].changed) =>
                (props[p].setToPublish /\ PublishReturn(TRUE))
      ]_vars

\* On a tick with the first-tick latch set, a disabled property with changed set
\* stayed out of the payload that holds the other one.
C10_Witness ==
    /\ taskState = "publishing"
    /\ first_run
    /\ staged # <<>>
    /\ \E p \in GroupedProps :
           /\ props[p].disabled
           /\ props[p].changed
           /\ p \notin StagedProps
           /\ ~props[p].setToPublish

\* The creation calls of the three registries, before the tasks start.  A name
\* of 4 characters is too long for a property, one of 64 for a notification; so
\* are an event of 64 characters and a format of 128.
PropertyNames == {"a", "b", "c", "d", "long"}
StringPropertyNames == {"b", "long"}
LongName == "nnnnnnnnnnnnnnnnnnnnnnnnnnnnnnnnnnnnnnnnnnnnnnnnnnnnnnnnnnnnnnnn"
LongEvent == "eeeeeeeeeeeeeeeeeeeeeeeeeeeeeeeeeeeeeeeeeeeeeeeeeeeeeeeeeeeeeeee"
NotificationNames == {"over", "mode", "temp", LongName}
MappedNotificationNames == {"mode", LongName}
EventNames == {"e1", LongEvent}
Formats == {MessageFormat, <<"%s", "ffffffffffffffffffffffffffffffffffffffffffffffffffffffffffffffffffffffffffffffffffffffffffffffffffffffffffffffffffffffffffffff", "%u", "%s">>}
ModeMap == MapOf(<<StringOf(<<"o", "f", "f">>), StringOf(<<"o", "n">>)>>)

Create ==
    \/ \E n \in PropertyNames : Trackle_Prop_create(n, 1, 0, FALSE)
    \/ \E n \in StringPropertyNames, ok \in BOOLEAN : Trackle_Prop_createString(n, 1, ok)
    \/ Trackle_PropGroup_create(<<0, 100>>, TRUE)
    \/ \E n \in NotificationNames, e \in EventNames, f \in Formats :
           Trackle_Notification_create(n, e, f, 1, 0, TRUE)
    \/ \E n \in MappedNotificationNames :
           Trackle_Notification_createWithValueMap(n, "e2", MessageFormat, 1, 0, FALSE,
                                                   ModeMap, 2)

SpecCreate == InitSetup /\ [][Create]_vars

\* The properties of the application are created and its groups are being set
\* up.
InitGroups ==
    /\ defaultValue = 0
    /\ defaultChanged = TRUE
    /\ props = <<NewProp("a", 1, 0, FALSE), NewStringProp("b", 1),
                 NewProp("c", 10, 1, FALSE)>>
    /\ propGroups = [g \in 1..TRACKLE_MAX_PROPGROUPS_NUM |-> NewPropGroup(<<0, 0>>, FALSE)]
    /\ numPropGroupsCreated = 0
    /\ taskState = "setup"
    /\ first_run = TRUE
    /\ jsonBuffer = ""
    /\ clockMs \in StartClocksMs
    /\ ticks = 0
    /\ calls = 0
    /\ staged = <<>>
    /\ retry = <<NoMember, NoMember, NoMember>>
    /\ acked = <<NoMember, NoMember, NoMember>>
    /\ quiet = 0
    /\ lastCall = NoCall
    /\ eNow = <<0, 0>> /\ eStart = <<0, 0>> /\ eDelay = <<0, 0>> /\ eResult = <<>>
    /\ rInput = <<>>
    /\ rOutput = <<>>
    /\ NotificationsNotStarted

Groups ==
    \/ \E per \in PeriodsMs, oic \in BOOLEAN : Trackle_PropGroup_create(per, oic)
    \/ \E p \in 0..(Len(props) + 1), g \in 0..(numPropGroupsCreated + 1),
          pastEnd \in BOOLEAN : Trackle_PropGroup_addProp(p, g, pastEnd)

SpecGroups == InitGroups /\ [][Groups]_vars

\* The set-up of an application: the creation calls, then the start of the two
\* tasks in either order, each of which may fail.
Start ==
    \/ \E res \in TaskCreationResults : Trackle_Props_startTask(res)
    \/ \E res \in TaskCreationResults : Trackle_Notifications_startTask(res)

SpecStart == InitSetup /\ [][Create \/ Start]_vars

(* Rendering of one value by each engine *)

RenderSigns == BOOLEAN
RenderKinds == {<<1, 0>>, <<10, 1>>, <<100, 2>>}
RenderValues == {-7, -1, 0, 1, 2}
\* A mapped string that does not fit valueBuffer with its quotes.
LongMappedString == StringOf([i \in 1..(VALUE_BUFFER_LEN - 2) |-> "x"])
RenderMaps ==
    {<<NullMap, 0>>, <<NullMap, 2>>, <<ModeMap, 0>>, <<ModeMap, 2>>,
     <<MapOf(<<NullString, StringOf(<<"o", "n">>)>>), 2>>,
     <<MapOf(<<LongMappedString>>), 1>>}

\* The property holding the value to render: created, then updated to it.
RenderedProp(in) ==
    [NewProp("k", in.scale, in.numDecimals, in.sign) EXCEPT !.setValue = in.value]

\* The notification holding the value to render: created, then updated to it.
RenderedNotification(in) ==
    [NewNotification("k", "e1", MessageFormat, in.scale, in.numDecimals, in.sign,
                     in.valueMap, in.valueMapSize)
         EXCEPT !.value = in.value, !.level = 1]

RenderProperty ==
    /\ rInput # <<>>
    /\ rOutput = <<>>
    /\ LET p == RenderedProp(rInput[1])
       IN  rOutput' = <<[engine |-> "properties", value |-> RenderValue(p),
                         wire |-> appendPropertyToJsonString("{", p)]>>
    /\ UNCHANGED <<props, propGroups, numPropGroupsCreated, defaultValue,
                   defaultChanged, taskVars, calls, historyVars, elapsedVars,
                   notifications, notifTaskVars, rInput>>

RenderNotification ==
    /\ rInput # <<>>
    /\ rOutput = <<>>
    /\ LET n == RenderedNotification(rInput[1])
       IN  rOutput' = <<[engine |-> "notifications", value |-> NotificationValueText(n),
                         wire |-> makeMessageStringFromNotification(n)]>>
    /\ UNCHANGED <<props, propGroups, numPropGroupsCreated, defaultValue,
                   defaultChanged, taskVars, calls, historyVars, elapsedVars,
                   notifications, notifTaskVars, rInput>>

InitRender ==
    /\ props = <<>>
    /\ propGroups = [g \in 1..TRACKLE_MAX_PROPGROUPS_NUM |-> NewPropGroup(<<0, 0>>, FALSE)]
    /\ numPropGroupsCreated = 0
    /\ defaultValue = 0
    /\ defaultChanged = TRUE
    /\ taskState = "setup"
    /\ first_run = TRUE
    /\ jsonBuffer = ""
    /\ clockMs = <<0, 0>>
    /\ ticks = 0
    /\ calls = 0
    /\ staged = <<>>
    /\ retry = <<>>
    /\ acked = <<>>
    /\ quiet = 0
    /\ lastCall = NoCall
    /\ eNow = <<0, 0>> /\ eStart = <<0, 0>> /\ eDelay = <<0, 0>> /\ eResult = <<>>
    /\ notifications = <<>>
    /\ nTaskState = "setup"
    /\ aIdx = 0
    /\ messageBuffer = ""
    /\ nTicks = 0
    /\ attempts = <<>>
    /\ lastFailed = <<>>
    /\ \E sign \in RenderSigns, k \in RenderKinds, v \in RenderValues, m \in RenderMaps :
           rInput = <<[sign |-> sign, scale |-> k[1], numDecimals |-> k[2],
                       value |-> v, valueMap |-> m[1], valueMapSize |-> m[2]]>>
    /\ rOutput = <<>>

SpecRender == InitRender /\ [][RenderProperty \/ RenderNotification]_vars

----------------------------------------------------------------------------
(* Claims about the notifications engine and about the calls of both engines *)

\* The step starts a publish call (for notification aIdx').
StartsAttempt ==
    /\ nTaskState' = "publishing"
    /\ NotificationsTick \/ \E success \in BOOLEAN : NotificationPublishReturn(success)

\* C11: notifications, retry on failure.  A publish that returns true clears the
\* changed flag of its notification; one that returns false leaves it set, and
\* as long as the notification is not updated its changed flag stays set and the
\* next publish call made for it carries the identical message, however many
\* publishes failed before.
C11_NotificationRetry ==
    [][ /\ NotificationPublishReturn(TRUE) => ~notifications'[aIdx].changed
        /\ NotificationPublishReturn(FALSE) =>
               (notifications[aIdx].changed /\ notifications'[aIdx].changed)
        /\ \A i \in DOMAIN lastFailed' :
               lastFailed'[i] # NoMember => notifications'[i].changed
        /\ StartsAttempt =>
               (lastFailed[aIdx'] # NoMember => messageBuffer' = lastFailed[aIdx'])
      ]_vars

\* The third iteration publishes again the message whose publish failed before.
C11_Witness ==
    /\ nTaskState = "publishing"
    /\ nTicks = 3
    /\ calls = 1
    /\ lastFailed[aIdx] # NoMember
    /\ messageBuffer = lastFailed[aIdx]
    /\ messageBuffer = "over:1:5"

\* The index at which the loop of the notifications task stood before the step:
\* 0 when the iteration starts, aIdx when a publish returns.
LoopFrom == IF nTaskState = "publishing" THEN aIdx ELSE 0

\* The index the loop reaches in the step: that of the next publish, or the end.
LoopTo == IF nTaskState' = "publishing" THEN aIdx' ELSE Len(notifications) + 1

\* C12: in one iteration every notification whose changed flag is set gets one
\* publish call, with its own event and a message made of its own key, level and
\* value only; the notifications passed over have changed clear and get none;
\* the result of a publish changes nothing but the changed flag of the
\* notification published, and a failed publish does not end the iteration.
C12_OneAttemptEach ==
    [][ (NotificationsTick \/ \E success \in BOOLEAN : NotificationPublishReturn(success)) =>
          /\ LoopTo > LoopFrom
          /\ \A k \in (LoopFrom + 1)..(LoopTo - 1) : ~notifications'[k].changed
          /\ nTaskState' = "publishing" =>
                /\ notifications'[aIdx'].changed
                /\ messageBuffer' =
                       notifications[aIdx'].key \o ":"
                       \o DecimalOfNat(notifications[aIdx'].level) \o ":"
                       \o NotificationValueText(notifications[aIdx'])
          /\ \A k \in DOMAIN notifications :
                 k # LoopFrom => notifications'[k] = notifications[k]
          /\ \A i \in 1..Len(attempts') :
                 /\ attempts'[i][2] = notifications[attempts'[i][1]].event
                 /\ \A j \in 1..Len(attempts') :
                        i < j => attempts'[i][1] < attempts'[j][1]
      ]_vars

\* An iteration has ended in which the publish of the first notification failed
\* and that of the second succeeded.
C12_Witness ==
    /\ nTaskState = "waiting"
    /\ Len(attempts) = 2
    /\ attempts[1] = <<1, "e1", "over:1:5", FALSE>>
    /\ attempts[2][1] = 2 /\ attempts[2][2] = "e2" /\ attempts[2][4]
    /\ notifications[1].changed
    /\ ~notifications[2].changed

\* C13: Trackle_Notification_update with a valid handle and a new level stores
\* the level and the value and sets changed at once; with the stored level it
\* leaves the notification as it was, whatever the value passed.
C13_NotificationUpdate ==
    [][ \A a \in DOMAIN notifications, l \in NewLevels, v \in NotificationValues :
          Trackle_Notification_update(a, l, v) =>
              /\ lastCall'.result
              /\ notifications' =
                     IF notifications[a].level # l
                     THEN [notifications EXCEPT ![a].changed = TRUE,
                                                ![a].value = v,
                                                ![a].level = l]
                     ELSE notifications
      ]_vars

\* Two updates of the same notification were made before any iteration; the level
\* and the value of the first one are stored and changed is set.
C13_Witness ==
    /\ lastCall = Call("Trackle_Notification_update", 1, TRUE)
    /\ calls = 2
    /\ nTicks = 0
    /\ notifications[1].changed
    /\ notifications[1].level = 1
    /\ notifications[1].value \in NotificationValues
    /\ notifications[2] = NewNotification("mode", "e2", MessageFormat, 1, 0, FALSE,
                                          MapOf(<<StringOf(<<"o", "n">>)>>), 1)
    /\ props[1].setValue = defaultValue

\* What no call with a handle that addresses no entry changes.
RegistriesUnchanged ==
    /\ props' = props
    /\ propGroups' = propGroups
    /\ numPropGroupsCreated' = numPropGroupsCreated
    /\ notifications' = notifications
    /\ ~lastCall'.result

\* C17: Trackle_Prop_update, Trackle_Prop_updateString, Trackle_Prop_setDisabled,
\* Trackle_Prop_setDebounceDelay and Trackle_Notification_update called with a
\* handle outside 1..(number of entries created) return false and leave every
\* property, group, notification and counter as it was.
C17_InvalidHandle ==
    [][ /\ \A p \in {0, Len(props) + 1} :
              /\ \A v \in NewValues \cup DefaultValues :
                     Trackle_Prop_update(p, v) => RegistriesUnchanged
              /\ \A v \in NewStrings :
                     Trackle_Prop_updateString(p, v) => RegistriesUnchanged
              /\ \A d \in BOOLEAN :
                     Trackle_Prop_setDisabled(p, d) => RegistriesUnchanged
              /\ \A d \in DebounceDelaysMs :
                     Trackle_Prop_setDebounceDelay(p, d) => RegistriesUnchanged
        /\ \A a \in {0, Len(notifications) + 1}, l \in NewLevels,
              v \in NotificationValues :
                  Trackle_Notification_update(a, l, v) => RegistriesUnchanged
      ]_vars

\* A call with a handle one past the last notification has returned false, after
\* a call with handle 0 or one past the last property.
C17_Witness ==
    /\ lastCall = Call("Trackle_Notification_update", Len(notifications) + 1, FALSE)
    /\ calls = 2
    /\ \A i \in DOMAIN notifications : ~notifications[i].changed
    /\ \A i \in DOMAIN props : ~props[i].debouncing /\ ~props[i].disabled

----------------------------------------------------------------------------
(* Claims about the registries *)

\* The step leaves the three registries and their counters as they were and
\* returns the error value of the function called.
CreationRefused(op, errorValue) ==
    /\ lastCall' = Call(op, errorValue, FALSE)
    /\ props' = props
    /\ propGroups' = propGroups
    /\ numPropGroupsCreated' = numPropGroupsCreated
    /\ notifications' = notifications

PropertyRefusable(n) ==
    \/ Len(props) >= TRACKLE_MAX_PROPS_NUM
    \/ n \in Keys
    \/ Len(n) >= TRACKLE_MAX_PROP_NAME_LENGTH

NotificationRefusable(n) ==
    \/ Len(notifications) >= TRACKLE_MAX_NOTIFICATIONS_NUM
    \/ n \in NotificationKeys
    \/ Len(n) >= NOTIFICATION_NAME_LENGTH

\* C14: a creation call returns the error value when its registry is at capacity,
\* when the name is the key of a registered entry, or when the name is not
\* shorter than the maximum key length; the number of entries and every entry of
\* every registry are then as before the call.
C14_CreationRefused ==
    [][ /\ \A n \in PropertyNames :
              /\ (Trackle_Prop_create(n, 1, 0, FALSE) /\ PropertyRefusable(n)) =>
                     CreationRefused("Trackle_Prop_create", Trackle_PropID_ERROR)
              /\ \A ok \in BOOLEAN :
                     (Trackle_Prop_createString(n, 1, ok) /\ PropertyRefusable(n)) =>
                         CreationRefused("Trackle_Prop_createString",
                                         Trackle_PropID_ERROR)
        /\ ( /\ Trackle_PropGroup_create(<<0, 100>>, TRUE)
             /\ numPropGroupsCreated >= TRACKLE_MAX_PROPGROUPS_NUM ) =>
               CreationRefused("Trackle_PropGroup_create", Trackle_PropGroupID_ERROR)
        /\ \A n \in NotificationNames :
              /\ \A e \in EventNames, f \in Formats :
                     ( /\ Trackle_Notification_create(n, e, f, 1, 0, TRUE)
                       /\ NotificationRefusable(n) ) =>
                         CreationRefused("Trackle_Notification_create",
                                         Trackle_NotificationID_ERROR)
              /\ ( /\ Trackle_Notification_createWithValueMap(
                          n, "e2", MessageFormat, 1, 0, FALSE, ModeMap, 2)
                   /\ NotificationRefusable(n) ) =>
                     CreationRefused("Trackle_Notification_create",
                                     Trackle_NotificationID_ERROR)
      ]_vars

\* The three registries are full and a creation call for the notification
\* registry has returned the error value.
C14_Witness ==
    /\ Len(props) = TRACKLE_MAX_PROPS_NUM
    /\ numPropGroupsCreated = TRACKLE_MAX_PROPGROUPS_NUM
    /\ Len(notifications) = TRACKLE_MAX_NOTIFICATIONS_NUM
    /\ "temp" \notin NotificationKeys
    /\ lastCall = Call("Trackle_Notification_create", Trackle_NotificationID_ERROR, FALSE)

\* C15: in every reachable state no two registered properties have the same key
\* and no two registered notifications have the same key.
C15_UniqueKeys ==
    /\ \A i, j \in DOMAIN props : props[i].key = props[j].key => i = j
    /\ \A i, j \in DOMAIN notifications :
           notifications[i].key = notifications[j].key => i = j

\* Numeric and string properties are registered, and a string creation has just
\* been refused while there was room in the registry.
C15_Witness ==
    /\ Len(props) = 2
    /\ props[1].isString /\ ~props[2].isString
    /\ Len(notifications) = 1
    /\ lastCall = Call("Trackle_Prop_createString", Trackle_PropID_ERROR, FALSE)

CreationCalls ==
    {"Trackle_Prop_create", "Trackle_Prop_createString", "Trackle_PropGroup_create",
     "Trackle_Notification_create"}

\* C16: the number of properties, groups and notifications never exceeds its
\* capacity and never decreases; a registry grows by one entry exactly in a
\* creation call that succeeds, which returns the new number of entries as the
\* handle (so the k-th success returns k); and the entries registered keep their
\* place and their key.
C16_StableHandles ==
    [][ /\ Len(props') <= TRACKLE_MAX_PROPS_NUM
        /\ numPropGroupsCreated' <= TRACKLE_MAX_PROPGROUPS_NUM
        /\ Len(notifications') <= TRACKLE_MAX_NOTIFICATIONS_NUM
        /\ Len(props') >= Len(props)
        /\ numPropGroupsCreated' >= numPropGroupsCreated
        /\ Len(notifications') >= Len(notifications)
        /\ \A i \in DOMAIN props : props'[i].key = props[i].key
        /\ \A i \in DOMAIN notifications : notifications'[i].key = notifications[i].key
        /\ LET grown == (Len(props') - Len(props))
                        + (numPropGroupsCreated' - numPropGroupsCreated)
                        + (Len(notifications') - Len(notifications))
           IN  /\ grown = IF lastCall'.op \in CreationCalls /\ lastCall'.result
                          THEN 1 ELSE 0
               /\ lastCall'.op \in {"Trackle_Prop_create", "Trackle_Prop_createString"}
                  /\ lastCall'.result =>
                      (lastCall'.handle = Len(props') /\ Len(props') = Len(props) + 1)
               /\ lastCall'.op = "Trackle_PropGroup_create" /\ lastCall'.result =>
                      /\ lastCall'.handle = numPropGroupsCreated'
                      /\ numPropGroupsCreated' = numPropGroupsCreated + 1
               /\ lastCall'.op = "Trackle_Notification_create" /\ lastCall'.result =>
                      /\ lastCall'.handle = Len(notifications')
                      /\ Len(notifications') = Len(notifications) + 1
      ]_vars

\* The last free slot of the notification registry has been taken, with all the
\* other registries full.
C16_Witness ==
    /\ Len(props) = TRACKLE_MAX_PROPS_NUM
    /\ numPropGroupsCreated = TRACKLE_MAX_PROPGROUPS_NUM
    /\ lastCall = Call("Trackle_Notification_create", TRACKLE_MAX_NOTIFICATIONS_NUM, TRUE)
    /\ Len(notifications) = TRACKLE_MAX_NOTIFICATIONS_NUM

\* C18: Trackle_PropGroup_addProp(p, g) returns true and appends p to group g
\* exactly when p and g are valid handles, p is not a member of g and g has
\* fewer members than a group can hold, whatever the other groups hold;
\* otherwise it returns false and no group changes; no group holds a property
\* twice.
C18_AddPropExactly ==
    [][ \A p \in 0..(Len(props) + 1), g \in 0..(numPropGroupsCreated + 1),
           pastEnd \in BOOLEAN :
          Trackle_PropGroup_addProp(p, g, pastEnd) =>
              LET accepted == /\ ValidProp(p)
                              /\ ValidGroup(g)
                              /\ p \notin MembersOf(g)
                              /\ Len(propGroups[g].propsIndexes) < TRACKLE_MAX_PROPS_NUM
              IN  /\ lastCall'.result = accepted
                  /\ propGroups' =
                         IF accepted
                         THEN [propGroups EXCEPT ![g].propsIndexes = Append(@, p)]
                         ELSE propGroups
      ]_vars

----------------------------------------------------------------------------
(* Claims about the rendering of values *)

Rendered == rInput # <<>> /\ rOutput # <<>>

\* C19: a plain-integer value (scale 1, no mapped string in its place) is
\* rendered according to the sign flag in both engines: as a signed decimal,
\* keeping the minus sign of a negative value, when sign is true, and as the
\* unsigned 32-bit reinterpretation when sign is false.
C19_IntegerPerSign ==
    ( /\ Rendered
      /\ rInput[1].scale = 1
      /\ rOutput[1].engine = "notifications" =>
             ~MapEntrySelected(RenderedNotification(rInput[1])) )
    => rOutput[1].value = IF rInput[1].sign THEN FormatPRIi32(rInput[1].value)
                          ELSE FormatPRIu32(rInput[1].value)

\* The numeric rule of a notification without a value map.
NumericRule(in) ==
    IF in.scale = 1
    THEN IF in.sign THEN FormatPRIi32(in.value) ELSE FormatPRIu32(in.value)
    ELSE FormatFixed(in.value, in.scale, in.numDecimals)

\* C20: the rendered value of a notification is the quoted mapped string exactly
\* when a value map is attached, its size is above 0, the value v is within
\* 0 <= v < size and entry v is not null; in every other case it is rendered by
\* the numeric rule of a notification without a map (integer per sign flag for
\* scale 1, scaled decimal otherwise).
C20_ValueMapFallback ==
    (Rendered /\ rOutput[1].engine = "notifications") =>
        LET in == rInput[1]
            mapped == /\ ~in.valueMap.isNull
                      /\ in.valueMapSize > 0
                      /\ in.value >= 0
                      /\ in.value < in.valueMapSize
                      /\ ~in.valueMap.entries[in.value + 1].isNull
        IN  rOutput[1].value =
                IF mapped
                THEN "\"" \o CString(in.valueMap.entries[in.value + 1].chars) \o "\""
                ELSE NumericRule(in)

----------------------------------------------------------------------------
(* Claims about the start of the tasks and about the iterations of the
   properties task *)

\* C21: Trackle_Props_startTask and Trackle_Notifications_startTask return true
\* if the task was created (result pdPASS) and false if its creation failed
\* (any other result).
C21_StartTaskResult ==
    [][ \A res \in TaskCreationResults :
           /\ Trackle_Props_startTask(res) => lastCall'.result = (res = pdPASS)
           /\ Trackle_Notifications_startTask(res) => lastCall'.result = (res = pdPASS)
      ]_vars

\* C22: an iteration in which the device is not connected makes no publish call
\* and changes nothing: no debounce is promoted, no group restarts its period, no
\* changed flag or last published value is written and first_run stays as it
\* was.
C22_NotConnectedNoEffect ==
    [][ TickNotConnected =>
            /\ props' = props
            /\ propGroups' = propGroups
            /\ first_run' = first_run
            /\ jsonBuffer' = jsonBuffer
            /\ staged' = staged
            /\ taskState' = "waiting"
      ]_vars

\* An iteration without connection has just passed over a group whose period has
\* elapsed and over a member of it whose debounce delay has elapsed (a connected
\* iteration would have restarted the period of the group).
C22_Witness ==
    /\ taskState = "waiting"
    /\ ticks > 0
    /\ lastCall = NoCall
    /\ \E g \in 1..numPropGroupsCreated :
           /\ isMsElapsed(clockMs, propGroups[g].latestWakeTimeMs, propGroups[g].periodMs)
           /\ \E p \in MembersOf(g) :
                  /\ props[p].debouncing
                  /\ isMsElapsed(clockMs, props[p].latestSetTimeMs,
                                 props[p].debounceDelayMs)

\* C23: in every connected iteration every property whose debounce is pending
\* and whose debounce delay has elapsed is promoted (debouncing cleared, changed
\* set), whether or not a group that contains it is evaluated in that iteration.
C23_PromotionEveryTick ==
    [][ TickConnected =>
            \A p \in DOMAIN props :
                ( /\ props[p].debouncing
                  /\ isMsElapsed(clockMs', props[p].latestSetTimeMs,
                                 props[p].debounceDelayMs) )
                => (~props'[p].debouncing /\ props'[p].changed)
      ]_vars

\* Whether the period of group g has elapsed at nowMs since it was last evaluated.
PeriodElapsed(g, nowMs) ==
    isMsElapsed(nowMs, propGroups[g].latestWakeTimeMs, propGroups[g].periodMs)

\* The group is left alone by the step, and so is every member of it that has no
\* other group evaluated at nowMs.
NotEvaluated(g, nowMs) ==
    /\ propGroups'[g] = propGroups[g]
    /\ \A p \in MembersOf(g) :
           (\A h \in 1..numPropGroupsCreated :
                p \in MembersOf(h) => ~(first_run \/ PeriodElapsed(h, nowMs)))
           => /\ props'[p] = props[p]
              /\ \A i \in 1..Len(staged') : staged'[i][1] # p

\* C24 as claimed: a group is evaluated in an iteration only if its period has
\* elapsed or the iteration is the very first one since the start; in any later
\* iteration a group whose period has not elapsed is not evaluated and none of
\* its members is staged.
C24_OnlyFirstTickOrElapsed ==
    [][ TickConnected =>
            \A g \in 1..numPropGroupsCreated :
                (ticks > 0 /\ ~PeriodElapsed(g, clockMs')) => NotEvaluated(g, clockMs')
      ]_vars

\* C24 as amended: what makes every group due is first_run, which stays set
\* until the first publish that succeeds, not the first iteration; once first_run
\* is cleared a group whose period has not elapsed is not evaluated: its period is
\* not restarted and a member of it is neither promoted nor staged unless another
\* group that contains it is evaluated.
C24_OnlyLatchOrElapsed ==
    [][ TickConnected =>
            \A g \in 1..numPropGroupsCreated :
                (~first_run /\ ~PeriodElapsed(g, clockMs')) => NotEvaluated(g, clockMs')
      ]_vars

\* After the first successful publish, an iteration has left alone the group of
\* period 200 ms, evaluated 100 ms before, and its member whose debounce delay
\* has elapsed.
C24_Witness ==
    /\ ~first_run
    /\ taskState = "waiting"
    /\ ticks = 2
    /\ lastCall = NoCall
    /\ \E g \in 1..numPropGroupsCreated :
           /\ propGroups[g].periodMs = <<0, 200>>
           /\ propGroups[g].latestWakeTimeMs # clockMs
           /\ ~PeriodElapsed(g, clockMs)
           /\ \E p \in MembersOf(g) :
                  /\ props[p].debouncing
                  /\ isMsElapsed(clockMs, props[p].latestSetTimeMs,
                                 props[p].debounceDelayMs)

\* C25: after a batched publish that returns true, changed is false for every
\* property staged in that iteration and first_run is cleared, while changed,
\* debouncing and the set value of every property not staged in that iteration
\* are as they were.
C25_SuccessClearsStagedOnly ==
    [][ PublishReturn(TRUE) =>
            /\ ~first_run'
            /\ \A p \in DOMAIN props :
                   IF p \in StagedProps
                   THEN ~props'[p].changed
                   ELSE /\ props'[p].changed = props[p].changed
                        /\ props'[p].debouncing = props[p].debouncing
                        /\ props'[p].setValue = props[p].setValue
                        /\ props'[p].setStringValue = props[p].setStringValue
      ]_vars

\* Both properties were updated between the first and the second iteration; the
\* publish of the second iteration carried only "b" and has succeeded: "b" is no
\* longer changed, and "a", not staged, is still pending with its new value.
C25_Witness ==
    /\ ~first_run
    /\ taskState = "waiting"
    /\ lastCall = NoCall
    /\ ticks = 2
    /\ props[2].setStringValue # <<>>
    /\ clockMs = U32Add(props[2].latestSetTimeMs, TRACKLE_PROPERTIES_TASK_PERIOD_MS)
    /\ acked[2] = RenderMember(props[2])
    /\ ~props[2].changed
    /\ props[1].debouncing
    /\ props[1].setValue # defaultValue
    /\ props[1].latestSetTimeMs = props[2].latestSetTimeMs
    /\ acked[1] # RenderMember(props[1])

\* C26: a group evaluated in an iteration restarts its period at the time of that
\* iteration, whatever is staged and whatever the publish returns later; nothing
\* else writes that time; and once first_run is cleared a group is evaluated no
\* earlier than periodMs (modulo 2^32) after its previous evaluation, so that
\* what a failed publish staged is evaluated again no earlier than one period of
\* the group later.
C26_PeriodRestarts ==
    [][ /\ TickConnected =>
               \A g \in 1..numPropGroupsCreated :
                   (first_run \/ PeriodElapsed(g, clockMs')) =>
                       /\ propGroups'[g].latestWakeTimeMs = clockMs'
                       /\ ~first_run =>
                              U32Geq(U32Sub(clockMs', propGroups[g].latestWakeTimeMs),
                                     propGroups[g].periodMs)
        /\ \A g \in 1..numPropGroupsCreated :
               propGroups'[g].latestWakeTimeMs # propGroups[g].latestWakeTimeMs =>
                   /\ TickConnected
                   /\ first_run \/ PeriodElapsed(g, clockMs')
      ]_vars

\* After first_run was cleared, the group of period 200 ms has been evaluated in
\* the third iteration, across the wrap of the millisecond counter, and its
\* members are being published.
C26_Witness ==
    /\ ~first_run
    /\ taskState = "publishing"
    /\ ticks = 3
    /\ U32Less(clockMs, <<0, 1000>>)
    /\ \E g \in 1..numPropGroupsCreated :
           /\ propGroups[g].periodMs = <<0, 200>>
           /\ propGroups[g].latestWakeTimeMs = clockMs
           /\ \E i \in 1..Len(staged) : staged[i][1] \in MembersOf(g)

\* The value of the staged property p was changed by an update after p was
\* rendered into the payload that is being published.
UpdatedInFlight(p) ==
    /\ taskState = "publishing"
    /\ p \in StagedProps
    /\ StagedText(p) # RenderMember(props[p])

\* C27: an update that changes the value of a property between its staging and
\* the return of the publish is not lost.  When the publish succeeds and clears
\* changed, the property still has its debounce pending, its new value, and a
\* last published value that differs from it; the pending debounce ends only in
\* a promotion, changed is cleared only by a successful publish that staged the
\* property; and a connected iteration that evaluates a group of the property
\* (enabled) after the debounce delay stages the property with the new value.
C27_UpdateInFlightKept ==
    [][ /\ PublishReturn(TRUE) =>
               \A p \in DOMAIN props :
                   UpdatedInFlight(p) =>
                       /\ props'[p].debouncing
                       /\ props'[p].latestSetTimeMs = props[p].latestSetTimeMs
                       /\ props'[p].setValue = props[p].setValue
                       /\ props'[p].setStringValue = props[p].setStringValue
                       /\ ~isSetValueEqualToLastSent(props'[p])
        /\ \A p \in DOMAIN props :
               /\ (props[p].debouncing /\ ~props'[p].debouncing) =>
                      (TickConnected /\ props'[p].changed)
               /\ (props[p].changed /\ ~props'[p].changed) =>
                      (PublishReturn(TRUE) /\ p \in StagedProps)
        /\ TickConnected =>
               \A p \in DOMAIN props :
                   ( /\ ~props[p].disabled
                     /\ props[p].debouncing
                     /\ isMsElapsed(clockMs', props[p].latestSetTimeMs,
                                    props[p].debounceDelayMs)
                     /\ ~isSetValueEqualToLastSent(props[p])
                     /\ p \in DueMembers(clockMs', first_run) )
                   => \E i \in 1..Len(staged') :
                          staged'[i] = <<p, RenderMember(props[p])>>
      ]_vars

\* The publish of the first iteration has succeeded after "a" was updated while
\* it was in flight: the value acknowledged is the old one, changed is cleared
\* and the debounce of the new value is pending.
C27_Witness ==
    /\ taskState = "waiting"
    /\ ticks = 1
    /\ ~first_run
    /\ lastCall = NoCall
    /\ props[1].debouncing
    /\ ~props[1].changed
    /\ props[1].latestSetTimeMs = clockMs
    /\ acked[1] # NoMember
    /\ acked[1] # RenderMember(props[1])

\* The property with its last published value in the place of its set value.
AsLastSent(p) ==
    [p EXCEPT !.setValue = p.lastPubValue, !.setStringValue = p.lastPubStringValue]

\* C28: while a payload is being published, the last published value of every
\* staged property is the value rendered for it into the payload, also when an
\* update of the property by another task falls between its rendering and the
\* copy of its set value into its last published value.
C28_SnapshotIsRendered ==
    taskState = "publishing" =>
        \A i \in 1..Len(staged) :
            staged[i][2] = RenderMember(AsLastSent(props[staged[i][1]]))

----------------------------------------------------------------------------
(* Claim about an update during the publish of a notification *)

\* The last publish attempt of notification a in the present iteration, as an
\* index of attempts, or 0.
LastAttempt(a) ==
    IF \E k \in 1..Len(attempts) : attempts[k][1] = a
    THEN CHOOSE k \in 1..Len(attempts) :
             /\ attempts[k][1] = a
             /\ \A j \in (k + 1)..Len(attempts) : attempts[j][1] # a
    ELSE 0

\* C29: a level accepted by Trackle_Notification_update is not lost: when the
\* publish of a notification has succeeded, either the message published carries
\* the level and value the notification has now, or changed is still set so that
\* the task will publish it again, and this also when the update stored the new
\* level while the task was rendering or publishing the notification.
C29_LevelNotLost ==
    \A a \in DOMAIN notifications :
        LET k == LastAttempt(a)
        IN  (k # 0 /\ attempts[k][4]) =>
                \/ notifications[a].changed
                \/ attempts[k][3] = makeMessageStringFromNotification(notifications[a])

====
